---- MODULE Spec2Model ----
(***************************************************************************)
(* A model of dust3d's MeshGenerator (src/unnamed/part_000): the dirty     *)
(* analysis, the cache purge and eviction of generate(), the component     *)
(* combiner with its combination cache, and the part build retry.          *)
(*                                                                         *)
(* Identifiers and combination keys are TLA+ strings in the format that    *)
(* to_string(Uuid) produces, "{8-4-4-4-12}", so that substring search and  *)
(* key concatenation are computed as the code computes them; a component's *)
(* children attribute is the comma separated string the code appends to    *)
(* and splits.  The stroke builder and the CSG engine are external and     *)
(* deterministic: the model abstracts a part's skeleton to the class       *)
(* ("shape") that decides how they answer, and a mesh to a record of what  *)
(* the code reads of it.                                                   *)
(***************************************************************************)
EXTENDS Integers, Sequences, FiniteSets, TLC

VARIABLES snapshot,   \* m_snapshot of the generator being run (or about to run)
          ctx,        \* the GeneratedCacheContext shared by successive generators
          gen,        \* the generator's members: pc, dirty sets, flags
          log,        \* history of the current generate() call
          document,   \* the caller's scene, from which each snapshot is taken
          rounds      \* number of snapshots taken after the first

vars == <<snapshot, ctx, gen, log, document, rounds>>

-----------------------------------------------------------------------------
(* Strings *)

\* std::string::find(d) != npos
Contains(k, d) ==
    \E i \in 1..(Len(k) - Len(d) + 1) : SubSeq(k, i, i + Len(d) - 1) = d

Char(s, i) == SubSeq(s, i, i)

\* std::reverse on a string
RECURSIVE Reverse(_)
Reverse(s) ==
    IF Len(s) <= 1 THEN s
    ELSE Reverse(SubSeq(s, Len(s) \div 2 + 1, Len(s))) \o Reverse(SubSeq(s, 1, Len(s) \div 2))

\* std::string::substr(pos, n), pos counted from 0
Substr(s, pos, n) == SubSeq(s, pos + 1, pos + n)

\* Characters of the identifiers in ASCII order, for std::map's ordering
Ascii == "-0123456789abcdef{}"

Rank(c) == CHOOSE i \in 1..Len(Ascii) : Char(Ascii, i) = c

\* operator< of std::string on strings over Ascii
StrLess(a, b) ==
    LET n == IF Len(a) < Len(b) THEN Len(a) ELSE Len(b)
        RECURSIVE LessFrom(_)
        LessFrom(i) ==
            IF i > n THEN Len(a) < Len(b)
            ELSE IF Char(a, i) = Char(b, i) THEN LessFrom(i + 1)
            ELSE Rank(Char(a, i)) < Rank(Char(b, i))
    IN LessFrom(1)

\* The keys of a std::map<std::string, ...> in iteration order
RECURSIVE Sorted(_)
Sorted(S) ==
    IF S = {} THEN <<>>
    ELSE LET m == CHOOSE x \in S : \A y \in S \ {x} : StrLess(x, y)
         IN <<m>> \o Sorted(S \ {m})

Range(f) == {f[i] : i \in DOMAIN f}

\* String::split: the pieces that std::getline reads up to each seperator, so
\* that the empty string has no piece and a piece that would follow the last
\* seperator exists only when it is not empty
RECURSIVE split(_, _)
split(string, seperator) ==
    IF string = "" THEN <<>>
    ELSE LET cuts == {i \in 1..Len(string) : Char(string, i) = seperator}
         IN IF cuts = {} THEN <<string>>
            ELSE LET c == CHOOSE i \in cuts : \A j \in cuts : i <= j
                 IN <<SubSeq(string, 1, c - 1)>>
                       \o split(SubSeq(string, c + 1, Len(string)), seperator)

-----------------------------------------------------------------------------
(* Uuid *)

\* to_string(Uuid())
NilUuid == "{00000000-0000-0000-0000-000000000000}"

HexDigits == {"0", "1", "2", "3", "4", "5", "6", "7", "8", "9",
              "a", "b", "c", "d", "e", "f"}

\* Uuid(string) parses the canonical form; anything else is the nil Uuid
IsCanonicalUuid(s) ==
    /\ Len(s) = Len(NilUuid)
    /\ \A i \in 1..Len(s) :
          IF Char(NilUuid, i) = "0" THEN Char(s, i) \in HexDigits
          ELSE Char(s, i) = Char(NilUuid, i)

\* Uuid(s).isNull()
UuidIsNull(s) == ~IsCanonicalUuid(s) \/ s = NilUuid

\* MeshGenerator::reverseUuid
reverseUuid(uuidString) ==
    LET newIdString == IF IsCanonicalUuid(uuidString) THEN uuidString ELSE NilUuid
        newRawId == Reverse(Substr(newIdString, 1, 8) \o
                            Substr(newIdString, 10, 4) \o
                            Substr(newIdString, 15, 4) \o
                            Substr(newIdString, 20, 4) \o
                            Substr(newIdString, 25, 12))
    IN "{" \o Substr(newRawId, 0, 8) \o "-" \o
       Substr(newRawId, 8, 4) \o "-" \o
       Substr(newRawId, 12, 4) \o "-" \o
       Substr(newRawId, 16, 4) \o "-" \o
       Substr(newRawId, 20, 12) \o "}"

-----------------------------------------------------------------------------
(* Snapshot *)

\* An attribute map is a record; an absent attribute reads as "" or FALSE,
\* as String::valueOrEmpty and String::isTrue read it.

\* The children attribute is the comma separated string itself; its readers
\* take String::split(children, ',') of it.

\* MeshGenerator::findComponent; NoComponent stands for nullptr
NoComponent == [id |-> "", dirty |-> FALSE, linkDataType |-> "", linkData |-> "",
                children |-> "", combineMode |-> "", inverse |-> FALSE,
                found |-> FALSE]

findComponent(snap, componentIdString) ==
    IF componentIdString # NilUuid
    THEN IF componentIdString \notin DOMAIN snap.components
         THEN NoComponent
         ELSE snap.components[componentIdString]
    ELSE snap.rootComponent

\* MeshGenerator::componentCombineMode
componentCombineMode(component) ==
    IF ~component.found THEN "Normal"
    ELSE LET combineMode == IF component.combineMode \in {"Inversion", "Uncombined"}
                            THEN component.combineMode ELSE "Normal"
         IN IF combineMode = "Normal" /\ component.inverse THEN "Inversion"
            ELSE combineMode

\* MeshGenerator::collectParts: m_partNodeIds
partNodeIds(snap, partId) ==
    {n \in DOMAIN snap.nodes : snap.nodes[n].partId = partId /\ partId # ""}

-----------------------------------------------------------------------------
(* Mirror preprocessing *)

\* preprocessMirror, first loop: the mirrored copies, in the order of the part map
newParts(snap) ==
    LET order == Sorted(DOMAIN snap.parts)
        mirroredIdx == {i \in 1..Len(order) : snap.parts[order[i]].xMirrored}
        F[i \in 0..Len(order)] ==
            IF i = 0 THEN <<>>
            ELSE IF i \in mirroredIdx
                 THEN LET part == snap.parts[order[i]]
                      IN Append(F[i - 1],
                                [part EXCEPT !.mirrorFromPartId = part.id,
                                             !.id = reverseUuid(part.id),
                                             !.dirty = TRUE])
                 ELSE F[i - 1]
    IN F[Len(order)]

\* preprocessMirror: partOldToNewMap, keyed by the id attribute of the source
partOldToNewMap(snap) ==
    LET np == newParts(snap)
    IN [old \in {np[i].mirrorFromPartId : i \in 1..Len(np)} |-> reverseUuid(old)]

\* An entry that operator[] creates before the attribute is written
EmptyPart == [id |-> "", dirty |-> FALSE, disabled |-> FALSE, target |-> "",
              cutFace |-> "", fillMesh |-> "", xMirrored |-> FALSE,
              mirrorFromPartId |-> "", mirroredByPartId |-> "", shape |-> "",
              color |-> "", colorSolubility |-> ""]

\* m_snapshot->parts[it.second]["__mirroredByPartId"] = it.first, for each pair
\* (it.first the source id, it.second the twin id) in the key order of the map:
\* of the sources that have the same twin, the one written last stays
markMirroredBy(parts, oldToNew) ==
    LET twins == {oldToNew[o] : o \in DOMAIN oldToNew}
        sourceOf(t) ==
            LET sources == {o \in DOMAIN oldToNew : oldToNew[o] = t}
            IN CHOOSE o \in sources : \A y \in sources \ {o} : StrLess(y, o)
    IN [p \in DOMAIN parts \cup twins |->
          IF p \in twins
          THEN [(IF p \in DOMAIN parts THEN parts[p] ELSE EmptyPart)
                   EXCEPT !.mirroredByPartId = sourceOf(p)]
          ELSE parts[p]]

\* preprocessMirror, lines 1393-1405: parentMap as the second loop finds it (""
\* for a child of the root), later writers win
parentMap(snap) ==
    LET order == Sorted(DOMAIN snap.components)
        inRoot == {c \in Range(split(snap.rootComponent.children, ",")) : c # ""}
        lastParent(c) ==
            LET idx == {i \in 1..Len(order) :
                          c \in Range(split(snap.components[order[i]].children, ","))}
            IN order[CHOOSE i \in idx : \A j \in idx : j <= i]
        listed == UNION {Range(split(snap.components[p].children, ",")) :
                           p \in DOMAIN snap.components}
                     \ {""}
    IN [c \in listed \cup inRoot |-> IF c \in inRoot THEN "" ELSE lastParent(c)]

\* parentMap[id] of std::map: a missing key reads as the empty string
parentOf(pm, id) == IF id \in DOMAIN pm THEN pm[id] ELSE ""

\* preprocessMirror, second loop (lines 1407-1423), from the i-th component of
\* the map on: a.list is newComponents and a.parentMap is parentMap, which line
\* 1421 writes while the loop runs: the twin's id gets the parent that the map
\* holds for the source at that moment, and the entry of a component that has
\* the twin's id is replaced
RECURSIVE newComponents(_, _, _, _)
newComponents(snap, oldToNew, i, a) ==
    IF i > Len(Sorted(DOMAIN snap.components)) THEN a
    ELSE LET component == snap.components[Sorted(DOMAIN snap.components)[i]]
         IN IF component.linkDataType = "partId"
               /\ component.linkData \in DOMAIN oldToNew
            THEN newComponents(snap, oldToNew, i + 1,
                    [list |-> Append(a.list,
                                 [component EXCEPT
                                     !.linkData = oldToNew[component.linkData],
                                     !.id = reverseUuid(component.id),
                                     !.dirty = TRUE]),
                     parentMap |-> [k \in DOMAIN a.parentMap \cup {reverseUuid(component.id)} |->
                                      IF k = reverseUuid(component.id)
                                      THEN parentOf(a.parentMap, component.id)
                                      ELSE a.parentMap[k]]])
            ELSE newComponents(snap, oldToNew, i + 1, a)

\* preprocessMirror, last loop (lines 1428-1437): insert the twins and append
\* each to the parent that parentMap holds for the twin's id after the second
\* loop; nc is what newComponents left.  The children attribute gets "," and the
\* id appended: an empty attribute becomes ",id", whose pieces are "" and id
RECURSIVE insertComponents(_, _, _)
insertComponents(snap, nc, i) ==
    IF i > Len(nc.list) THEN snap
    ELSE LET it == nc.list[i]
             parentIdString == parentOf(nc.parentMap, it.id)
             withIt == [snap EXCEPT !.components =
                          [k \in DOMAIN snap.components \cup {it.id} |->
                              IF k = it.id THEN it ELSE snap.components[k]]]
             next ==
               IF parentIdString = ""
               THEN [withIt EXCEPT !.rootComponent.children = @ \o "," \o it.id]
               ELSE [withIt EXCEPT !.components =
                       [k \in DOMAIN withIt.components \cup {parentIdString} |->
                          IF k = parentIdString
                          THEN IF k \in DOMAIN withIt.components
                               THEN [withIt.components[k] EXCEPT
                                        !.children = @ \o "," \o it.id]
                               ELSE [NoComponent EXCEPT !.found = TRUE,
                                                        !.children = "," \o it.id]
                          ELSE withIt.components[k]]]
         IN insertComponents(next, nc, i + 1)

\* A faulty variant: the twin parts are not put into the snapshot
preprocessMirror_NoTwinParts(snap) ==
    insertComponents(snap,
        newComponents(snap, partOldToNewMap(snap), 1,
                      [list |-> <<>>, parentMap |-> parentMap(snap)]),
        1)

\* MeshGenerator::preprocessMirror
preprocessMirror(snap) ==
    LET np == newParts(snap)
        oldToNew == partOldToNewMap(snap)
        marked == markMirroredBy(snap.parts, oldToNew)
        nc == newComponents(snap, oldToNew, 1,
                            [list |-> <<>>, parentMap |-> parentMap(snap)])
        parts2 == [p \in DOMAIN marked \cup {np[i].id : i \in 1..Len(np)} |->
                     LET idx == {i \in 1..Len(np) : np[i].id = p}
                     IN IF idx = {} THEN marked[p]
                        ELSE np[CHOOSE i \in idx : \A j \in idx : j <= i]]
    IN insertComponents([snap EXCEPT !.parts = parts2], nc, 1)

-----------------------------------------------------------------------------
(* Dirty analysis *)

\* MeshGenerator::checkIsPartDirty
checkIsPartDirty(snap, partIdString) ==
    /\ partIdString \in DOMAIN snap.parts
    /\ snap.parts[partIdString].dirty

\* A variant of checkIsPartDependencyDirty that never finds a dirty cut face
checkIsPartDependencyDirty_Never(snap, partIdString) == FALSE

\* MeshGenerator::checkIsPartDependencyDirty
checkIsPartDependencyDirty(snap, partIdString) ==
    /\ partIdString \in DOMAIN snap.parts
    /\ \/ /\ ~UuidIsNull(snap.parts[partIdString].cutFace)
          /\ checkIsPartDirty(snap, snap.parts[partIdString].cutFace)
       \/ \E n \in partNodeIds(snap, partIdString) :
             /\ ~UuidIsNull(snap.nodes[n].cutFace)
             /\ checkIsPartDirty(snap, snap.nodes[n].cutFace)

\* A faulty variant: a dirty child is not propagated to the component
dirtyAfterChild_NoPropagation(isDirty, childIsDirty) == isDirty

\* checkIsComponentDirty, lines 247-249: a dirty child makes the component dirty
dirtyAfterChild(isDirty, childIsDirty) == isDirty \/ childIsDirty

\* MeshGenerator::checkIsComponentDirty.  d = [components, parts] are
\* m_dirtyComponentIds and m_dirtyPartIds; the result carries them on.
RECURSIVE checkIsComponentDirty(_, _, _)
RECURSIVE checkChildrenDirty(_, _, _, _, _)

\* lines 247-249: r is the result of the call on child i
childChecked(snap, children, i, isDirty, r) ==
    checkChildrenDirty(snap, r.d, children, i + 1, dirtyAfterChild(isDirty, r.isDirty))

\* lines 244-250
checkChildrenDirty(snap, d, children, i, isDirty) ==
    IF i > Len(children) THEN [isDirty |-> isDirty, d |-> d]
    ELSE IF children[i] = "" THEN checkChildrenDirty(snap, d, children, i + 1, isDirty)
    ELSE childChecked(snap, children, i, isDirty,
                      checkIsComponentDirty(snap, d, children[i]))

\* lines 252-255: r is the result of the loop over the children
componentChecked(componentIdString, r) ==
    IF r.isDirty
    THEN [isDirty |-> TRUE,
          d |-> [r.d EXCEPT !.components = @ \cup {componentIdString}]]
    ELSE r

checkIsComponentDirty(snap, d, componentIdString) ==
    LET component == findComponent(snap, componentIdString)
    IN IF ~component.found THEN [isDirty |-> FALSE, d |-> d]
       ELSE LET own == component.dirty
                isLeaf == component.linkDataType = "partId"
                partDirty == isLeaf /\ checkIsPartDirty(snap, component.linkData)
                d1 == IF partDirty
                      THEN [d EXCEPT !.parts = @ \cup {component.linkData}]
                      ELSE d
                dep == /\ isLeaf
                       /\ ~(own \/ partDirty)
                       /\ checkIsPartDependencyDirty(snap, component.linkData)
            IN componentChecked(componentIdString,
                  checkChildrenDirty(snap, d1, split(component.children, ","), 1,
                                     own \/ partDirty \/ dep))

\* MeshGenerator::checkDirtyFlags
checkDirtyFlags(snap) ==
    checkIsComponentDirty(snap, [components |-> {}, parts |-> {}], NilUuid).d

-----------------------------------------------------------------------------
(* Meshes and the external collaborators *)

\* A MeshCombiner::Mesh pointer.  geo names the geometry; csg is the class of the
\* geometry that decides what the CSG engine answers when it is an operand.
Nullptr == [alloc |-> FALSE, isNull |-> TRUE, isCombinable |-> FALSE,
            geo |-> "", csg |-> ""]

\* mesh == nullptr || mesh->isNull()
NullOrIsNull(mesh) == ~mesh.alloc \/ mesh.isNull

\* StrokeMeshBuilder::build, by the class of the part's skeleton
StrokeBuild(shape, addIntermediateNodes) ==
    /\ shape # "broken"
    /\ ~(shape = "needsRetry" /\ addIntermediateNodes)

\* The vertices and faces the stroke builder generated (kept also when build fails)
StrokeGeo(part, partIdString, addIntermediateNodes) ==
    partIdString \o ":" \o part.shape
        \o (IF addIntermediateNodes THEN ":i" ELSE "")
        \o (IF part.mirrorFromPartId # "" THEN ":x" ELSE "")

\* new MeshCombiner::Mesh(vertices, faces)
NewMesh(shape, geo) ==
    [alloc |-> TRUE,
     isNull |-> shape = "nullMesh",
     isCombinable |-> shape # "incombinable",
     geo |-> geo,
     csg |-> CASE shape = "hostile" -> "fails"
               [] shape = "vanishing" -> "empty"
               [] shape = "leaky" -> "open"
               [] OTHER -> "ok"]

\* MeshCombiner::combine(first, second, method, &sources)
MeshCombinerCombine(first, second, method) ==
    IF first.csg = "fails" \/ second.csg = "fails" THEN Nullptr
    ELSE [alloc |-> TRUE,
          isNull |-> first.csg = "empty" \/ second.csg = "empty",
          isCombinable |-> ~(first.csg = "open" \/ second.csg = "open"),
          geo |-> "(" \o first.geo \o method \o second.geo \o ")",
          csg |-> "ok"]

\* MeshRecombiner::recombine succeeded, the regenerated faces are watertight and
\* the regenerated mesh is non-null and combinable
RecombineUsable(newMesh) == newMesh.isCombinable

\* MeshGenerator::combineTwoMeshes
combineTwoMeshes(first, second, method, recombine) ==
    IF first.isNull \/ second.isNull THEN Nullptr
    ELSE LET newMesh == MeshCombinerCombine(first, second, method)
         IN IF ~newMesh.alloc THEN Nullptr
            ELSE LET re == IF ~newMesh.isNull /\ recombine /\ RecombineUsable(newMesh)
                           THEN [newMesh EXCEPT !.geo = @ \o "!"]
                           ELSE newMesh
                 IN IF re.isNull THEN Nullptr ELSE re

-----------------------------------------------------------------------------
(* The cache context *)

\* GeneratedPart and GeneratedComponent as default-constructed by operator[]
EmptyPartCache == [mesh |-> Nullptr, isSuccessful |-> FALSE, joined |-> FALSE,
                   vertices |-> "", objectNodes |-> <<>>]

EmptyComponentCache == [mesh |-> Nullptr, incombinableMeshes |-> <<>>,
                        noneSeamVertices |-> {}, sharedQuadEdges |-> {},
                        objectNodes |-> <<>>]

\* map[key] on a std::map: the entry, default-constructed when absent
At(map, key, default) == IF key \in DOMAIN map THEN map[key] ELSE default

\* map[key] = value
Put(map, key, value) == [k \in DOMAIN map \cup {key} |-> IF k = key THEN value ELSE map[k]]

\* map.erase of every key in gone
Without(map, gone) == [k \in DOMAIN map \ gone |-> map[k]]

EmptyMap == [k \in {} |-> Nullptr]

-----------------------------------------------------------------------------
(* Part mesh build *)

\* combinePartMesh, lines 457-464: a part with a non-null fillMesh id is not retryable
partRetryable(part) == ~(part.fillMesh # "" /\ ~UuidIsNull(part.fillMesh))

\* combinePartMesh, lines 487-520 and 664-668: the part's nodes as object nodes
partObjectNodes(snap, partIdString, searchPartIdString) ==
    LET ids == Sorted(partNodeIds(snap, searchPartIdString))
    IN [i \in 1..Len(ids) |-> <<partIdString, ids[i]>>]

\* A faulty variant: the error is reported whatever the part's target is
reportsError_AnyTarget(hasMeshError, target) == hasMeshError

\* combinePartMesh, lines 777-779: what sets *hasError
reportsError(hasMeshError, target) == hasMeshError /\ target = "Model"

\* combinePartMesh, lines 696-781, once the stroke is built: `built` is the CSG
\* wrapper of the built vertices and faces (nullptr when the build failed)
partStored(snap, st, partIdString, hasError, addIntermediateNodes, part, geo, buildSucceed, built) ==
    [st |-> [st EXCEPT
               !.parts = Put(@, partIdString,
                   [mesh |-> built,
                    isSuccessful |-> built.alloc /\ ~built.isNull,
                    joined |-> part.target = "Model" /\ ~part.disabled,
                    vertices |-> geo,
                    objectNodes |-> partObjectNodes(snap, partIdString,
                                       IF part.mirrorFromPartId = "" THEN partIdString
                                       ELSE part.mirrorFromPartId)]),
               !.partCalls = Append(@,
                   [part |-> partIdString,
                    addIntermediateNodes |-> addIntermediateNodes,
                    hasMeshError |-> ~buildSucceed \/ built.isNull,
                    buildSucceed |-> buildSucceed,
                    wrapperIsNull |-> built.alloc /\ built.isNull,
                    target |-> part.target])],
     mesh |-> IF built.alloc /\ built.isNull THEN Nullptr
              ELSE IF part.disabled THEN Nullptr
              ELSE IF part.target # "Model" THEN Nullptr
              ELSE built,
     hasError |-> hasError \/ reportsError(~buildSucceed \/ built.isNull, part.target),
     retryable |-> partRetryable(part)]

\* combinePartMesh, lines 655 and 699-706
partBuilt(snap, st, partIdString, hasError, addIntermediateNodes, part, geo, buildSucceed) ==
    partStored(snap, st, partIdString, hasError, addIntermediateNodes, part, geo,
               buildSucceed,
               IF buildSucceed THEN NewMesh(part.shape, geo) ELSE Nullptr)

\* MeshGenerator::combinePartMesh.  st is the state the call works on (the cache
\* context, m_isSuccessful and the call history); hasError is the in-out flag.
combinePartMesh(snap, st, partIdString, hasError, addIntermediateNodes) ==
    IF partIdString \notin DOMAIN snap.parts
    THEN [st |-> st, mesh |-> Nullptr, hasError |-> hasError, retryable |-> TRUE]
    ELSE partBuilt(snap, st, partIdString, hasError, addIntermediateNodes,
                   snap.parts[partIdString],
                   StrokeGeo(snap.parts[partIdString], partIdString, addIntermediateNodes),
                   StrokeBuild(snap.parts[partIdString].shape, addIntermediateNodes))

-----------------------------------------------------------------------------
(* combineMultipleMeshes *)

\* The fold of combineMultipleMeshes is carried by a record a:
\*   st              the state worked on (cachedCombination, isSuccessful, csgCalls)
\*   mesh            the accumulator `mesh`
\*   meshIdStrings   the combination string so far
\* and, as history of the call,
\*   from            the index of the submesh the accumulator is (0: allocated inside)
\*   released        for each submesh index, how many times it was deleted
\*   steps           one record per combination step

\* A faulty variant: the two methods exchanged
combinerMethod_Swapped(childCombineMode) ==
    IF childCombineMode = "Inversion" THEN "Union" ELSE "Diff"

\* lines 1024-1025
combinerMethod(childCombineMode) ==
    IF childCombineMode = "Inversion" THEN "Diff" ELSE "Union"

\* A faulty variant: the operator is left out of the combination string
nextMeshIdStrings_NoOperator(meshIdStrings, method, subMeshIdString, recombine) ==
    meshIdStrings \o subMeshIdString \o (IF recombine THEN "!" ELSE "")

\* lines 1026-1030
nextMeshIdStrings(meshIdStrings, method, subMeshIdString, recombine) ==
    meshIdStrings \o (IF method = "Union" THEN "+" ELSE "-") \o subMeshIdString
        \o (IF recombine THEN "!" ELSE "")

\* delete of the accumulator
deleteAccumulator(from, released) ==
    IF from = 0 THEN released ELSE [released EXCEPT ![from] = @ + 1]

\* lines 1011-1019: which submeshes take part in the fold
subMeshUsable(subMesh) == ~NullOrIsNull(subMesh) /\ subMesh.isCombinable

\* A faulty variant: a step that gives no mesh leaves the success flag alone
stepApplied_KeepsSuccess(a, it, i, method, key, hit, newMesh, released) ==
    [st |-> a.st,
     mesh |-> IF newMesh.alloc /\ ~newMesh.isNull THEN newMesh ELSE a.mesh,
     meshIdStrings |-> key,
     from |-> IF newMesh.alloc /\ ~newMesh.isNull THEN 0 ELSE a.from,
     released |-> IF newMesh.alloc /\ ~newMesh.isNull
                  THEN deleteAccumulator(a.from, released) ELSE released,
     steps |-> Append(a.steps,
                  [index |-> i, key |-> key, hit |-> hit, method |-> method,
                   first |-> a.mesh, second |-> it.mesh, newMesh |-> newMesh])]

\* lines 1048-1054, with the history of the step
stepApplied(a, it, i, method, key, hit, newMesh, released) ==
    [st |-> IF newMesh.alloc /\ ~newMesh.isNull THEN a.st
            ELSE [a.st EXCEPT !.isSuccessful = FALSE],
     mesh |-> IF newMesh.alloc /\ ~newMesh.isNull THEN newMesh ELSE a.mesh,
     meshIdStrings |-> key,
     from |-> IF newMesh.alloc /\ ~newMesh.isNull THEN 0 ELSE a.from,
     released |-> IF newMesh.alloc /\ ~newMesh.isNull
                  THEN deleteAccumulator(a.from, released) ELSE released,
     steps |-> Append(a.steps,
                  [index |-> i, key |-> key, hit |-> hit, method |-> method,
                   first |-> a.mesh, second |-> it.mesh, newMesh |-> newMesh])]

\* lines 1037-1047: the key is not cached; the engine runs, the submesh is deleted
\* and the result (or nullptr) is memoized
stepMissed(a, it, i, method, key, newMesh) ==
    stepApplied([a EXCEPT
                   !.st.cachedCombination = Put(@, key, newMesh),
                   !.st.csgCalls = Append(@, [first |-> a.mesh, second |-> it.mesh,
                                              method |-> method, key |-> key])],
                it, i, method, key, FALSE, newMesh,
                [a.released EXCEPT ![i] = @ + 1])

\* A faulty variant: the combination cache is not consulted
stepLookup_NoCache(a, it, i, method, key, recombine) ==
    stepMissed(a, it, i, method, key,
               combineTwoMeshes(a.mesh, it.mesh, method, recombine))

\* lines 1032-1047
stepLookup(a, it, i, method, key, recombine) ==
    IF key \in DOMAIN a.st.cachedCombination
    THEN stepApplied(a, it, i, method, key, TRUE, a.st.cachedCombination[key],
                     a.released)
    ELSE stepMissed(a, it, i, method, key,
                    combineTwoMeshes(a.mesh, it.mesh, method, recombine))

\* lines 1024-1030
stepKeyed(a, it, i, method, recombine) ==
    stepLookup(a, it, i, method,
               nextMeshIdStrings(a.meshIdStrings, method, it.id, recombine), recombine)

\* One iteration of the loop of combineMultipleMeshes, lines 1007-1056
combineStep(a, it, i, recombine) ==
    IF ~subMeshUsable(it.mesh)
    THEN \* delete subMesh; continue   (delete of nullptr does nothing)
         IF it.mesh.alloc THEN [a EXCEPT !.released[i] = @ + 1] ELSE a
    ELSE IF ~a.mesh.alloc
    THEN [a EXCEPT !.mesh = it.mesh, !.from = i, !.meshIdStrings = it.id]
    ELSE stepKeyed(a, it, i, combinerMethod(it.mode), recombine)

RECURSIVE combineLoop(_, _, _, _)
combineLoop(a, multipleMeshes, i, recombine) ==
    IF i > Len(multipleMeshes) THEN a
    ELSE combineLoop(combineStep(a, multipleMeshes[i], i, recombine),
                     multipleMeshes, i + 1, recombine)

\* lines 1057-1061, with the history of the call
combineReturned(a, multipleMeshes, recombine) ==
    [st |-> [a.st EXCEPT !.cmmCalls = Append(@,
               [multipleMeshes |-> multipleMeshes, recombine |-> recombine,
                steps |-> a.steps,
                result |-> IF a.mesh.alloc /\ a.mesh.isNull THEN Nullptr ELSE a.mesh,
                returned |-> IF ~a.mesh.alloc \/ a.mesh.isNull THEN 0 ELSE a.from,
                released |-> IF a.mesh.alloc /\ a.mesh.isNull
                             THEN deleteAccumulator(a.from, a.released)
                             ELSE a.released])],
     mesh |-> IF a.mesh.alloc /\ a.mesh.isNull THEN Nullptr ELSE a.mesh]

\* MeshGenerator::combineMultipleMeshes.  multipleMeshes is a sequence of
\* [mesh, mode, id]; the result is the state and the returned mesh.
combineMultipleMeshes(st, multipleMeshes, recombine) ==
    combineReturned(
        combineLoop([st |-> st, mesh |-> Nullptr, meshIdStrings |-> "", from |-> 0,
                     released |-> [i \in 1..Len(multipleMeshes) |-> 0],
                     steps |-> <<>>],
                    multipleMeshes, 1, recombine),
        multipleMeshes, recombine)

-----------------------------------------------------------------------------
(* Component combiner *)

\* String::join
RECURSIVE Join(_, _)
Join(list, sep) ==
    IF Len(list) = 0 THEN ""
    ELSE IF Len(list) = 1 THEN list[1]
    ELSE list[1] \o sep \o Join(Tail(list), sep)

\* MeshGenerator::componentColorName
componentColorName(snap, component) ==
    IF ~component.found THEN ""
    ELSE IF component.linkDataType = "partId"
    THEN IF component.linkData \notin DOMAIN snap.parts THEN ""
         ELSE LET part == snap.parts[component.linkData]
              IN IF part.colorSolubility # "" THEN "+"
                 ELSE IF part.color = "" THEN "-" ELSE part.color
    ELSE ""

\* A variant of combineGroups' test of line 909 that leaves out the Inversion case
groupOpens_ModeOnly(lastCombineMode, combineMode) == lastCombineMode # combineMode

\* combineComponentMesh, line 909: the child opens a new group
groupOpens(lastCombineMode, combineMode) ==
    lastCombineMode # combineMode \/ lastCombineMode = "Inversion"

\* combineComponentMesh, lines 895-918: group the children by combine mode
RECURSIVE combineGroups(_, _, _, _, _)
combineGroups(snap, children, i, groups, lastCombineMode) ==
    IF i > Len(children) THEN groups
    ELSE IF children[i] = "" THEN combineGroups(snap, children, i + 1, groups, lastCombineMode)
    ELSE LET child == findComponent(snap, children[i])
             colorName == componentColorName(snap, child)
             combineMode == componentCombineMode(child)
             opened == groupOpens(lastCombineMode, combineMode)
             groups1 == IF opened
                        THEN Append(groups, [mode |-> combineMode, entries |-> <<>>])
                        ELSE groups
             entry == [id |-> children[i], colorName |-> colorName]
         IN combineGroups(snap, children, i + 1,
                          [groups1 EXCEPT ![Len(groups1)].entries = Append(@, entry)],
                          combineMode)

\* line 930: the colour every entry is given
ForcedColorName == "white"

\* The indices of a set, ascending
RECURSIVE Ascending(_)
Ascending(S) ==
    IF S = {} THEN <<>>
    ELSE LET m == CHOOSE x \in S : \A y \in S : x <= y
         IN <<m>> \o Ascending(S \ {m})

\* combineComponentMesh, lines 921-954: sub group one group by colour.
\* c = [used, subGroups, lastColorName]
RECURSIVE colorSubGroups(_, _, _)
colorSubGroups(entries, i, c) ==
    IF i > Len(entries) THEN c.subGroups
    ELSE IF i \in c.used THEN colorSubGroups(entries, i + 1, c)
    ELSE LET colorName == ForcedColorName
             opened == c.lastColorName # colorName \/ c.lastColorName = ""
             sub1 == IF opened THEN Append(c.subGroups, <<>>) ELSE c.subGroups
             others == IF colorName = "" THEN {}
                       ELSE {j \in (i + 1)..Len(entries) :
                               /\ j \notin c.used
                               /\ entries[j].colorName # ""
                               /\ entries[j].colorName = colorName}
             taken == <<i>> \o Ascending(others)
             ids == [k \in 1..Len(taken) |-> entries[taken[k]].id]
         IN colorSubGroups(entries, i + 1,
               [used |-> c.used \cup {i} \cup others,
                subGroups |-> [sub1 EXCEPT ![Len(sub1)] = @ \o ids],
                lastColorName |-> colorName])

\* GeneratedComponent::releaseMeshes and the clears of lines 859-864
clearedComponentCache == EmptyComponentCache

\* Faulty variants: every component, or none, is taken as not dirty
notDirty_Ignored(dirtyComponentIds, componentIdString) == TRUE

notDirty_Never(dirtyComponentIds, componentIdString) == FALSE

\* line 853: the component is answered from the cache only when it is not dirty
notDirty(dirtyComponentIds, componentIdString) ==
    componentIdString \notin dirtyComponentIds

\* A faulty variant: the retry is made whether or not the part is retryable and
\* interpolation is enabled
retryPart_Always(snap, g, r1, partIdString) ==
    IF r1.hasError
    THEN combinePartMesh(snap, r1.st, partIdString, FALSE, FALSE)
    ELSE r1

\* lines 872-882: what the leaf does after the first build attempt.
\* r1 is the first attempt's result; the result is the final attempt's.
retryPart(snap, g, r1, partIdString) ==
    IF r1.hasError /\ r1.retryable /\ g.interpolationEnabled
    THEN combinePartMesh(snap, r1.st, partIdString, FALSE, FALSE)
    ELSE IF r1.hasError THEN [r1 EXCEPT !.mesh = Nullptr] ELSE r1

\* lines 884-893: the leaf's cache entry takes the part's vertices, quads and nodes
leafComponentCache(partCache) ==
    [clearedComponentCache EXCEPT
       !.noneSeamVertices = IF partCache.vertices = "" THEN {} ELSE {partCache.vertices},
       !.sharedQuadEdges = IF partCache.vertices = "" THEN {} ELSE {partCache.vertices},
       !.objectNodes = partCache.objectNodes]

\* The default of the recombine parameter of combineMultipleMeshes
DefaultRecombine == TRUE

RECURSIVE combineComponentMesh(_, _, _, _)
RECURSIVE combineComponentChildGroupMesh(_, _, _, _, _)
RECURSIVE childGroupLoop(_, _, _, _, _, _, _)
RECURSIVE subGroupLoop(_, _, _, _, _, _, _, _)
RECURSIVE groupLoop(_, _, _, _, _, _, _)

\* A variant of childMerged without lines 1093-1096: an incombinable mesh is
\* not kept in the parent's entry
childMerged_Dropped(parent, child, subMesh) ==
    [parent EXCEPT
       !.noneSeamVertices = @ \cup child.noneSeamVertices,
       !.sharedQuadEdges = @ \cup child.sharedQuadEdges,
       !.objectNodes = @ \o child.objectNodes]

\* combineComponentChildGroupMesh, lines 1076-1096: the child's seam vertices, quad
\* edges and nodes join the parent's entry, and so does an incombinable mesh
childMerged(parent, child, subMesh) ==
    [parent EXCEPT
       !.noneSeamVertices = @ \cup child.noneSeamVertices,
       !.sharedQuadEdges = @ \cup child.sharedQuadEdges,
       !.objectNodes = @ \o child.objectNodes,
       !.incombinableMeshes = IF ~NullOrIsNull(subMesh) /\ ~subMesh.isCombinable
                              THEN Append(@, subMesh) ELSE @]

\* line 1076: components[childIdString] creates the child's entry when it has none
mergeChild(components, childIdString, parentId, subMesh) ==
    Put(Put(components, childIdString,
            At(components, childIdString, EmptyComponentCache)),
        parentId,
        childMerged(IF parentId = childIdString
                    THEN At(components, childIdString, EmptyComponentCache)
                    ELSE At(components, parentId, EmptyComponentCache),
                    At(components, childIdString, EmptyComponentCache),
                    subMesh))

\* lines 1072-1098: r is the result of combineComponentMesh on child i
childGroupNext(snap, g, componentIdStrings, i, parentId, multipleMeshes, r) ==
    IF r.combineMode = "Uncombined"
    THEN childGroupLoop(snap, g, r.st, componentIdStrings, i + 1, parentId, multipleMeshes)
    ELSE childGroupLoop(snap, g,
            [r.st EXCEPT !.components =
                mergeChild(@, componentIdStrings[i], parentId, r.mesh)],
            componentIdStrings, i + 1, parentId,
            IF NullOrIsNull(r.mesh) \/ ~r.mesh.isCombinable THEN multipleMeshes
            ELSE Append(multipleMeshes,
                        [mesh |-> r.mesh, mode |-> r.combineMode,
                         id |-> componentIdStrings[i]]))

\* MeshGenerator::combineComponentChildGroupMesh from child i on; parentId names
\* the component whose cache entry is `componentCache`.  After the last child the
\* collected meshes are combined (line 1100).
childGroupLoop(snap, g, st, componentIdStrings, i, parentId, multipleMeshes) ==
    IF i > Len(componentIdStrings)
    THEN combineMultipleMeshes(st, multipleMeshes, DefaultRecombine)
    ELSE childGroupNext(snap, g, componentIdStrings, i, parentId, multipleMeshes,
                        combineComponentMesh(snap, g, st, componentIdStrings[i]))

\* MeshGenerator::combineComponentChildGroupMesh
combineComponentChildGroupMesh(snap, g, st, componentIdStrings, parentId) ==
    childGroupLoop(snap, g, st, componentIdStrings, 1, parentId, <<>>)

\* combineComponentMesh, lines 961-970: r is the sub group's mesh
subGroupNext(snap, g, subGroups, i, parentId, multipleMeshes, idList, r, name) ==
    IF NullOrIsNull(r.mesh)
    THEN subGroupLoop(snap, g, r.st, subGroups, i + 1, parentId, multipleMeshes, idList)
    ELSE subGroupLoop(snap, g, r.st, subGroups, i + 1, parentId,
            Append(multipleMeshes, [mesh |-> r.mesh, mode |-> "Normal", id |-> name]),
            Append(idList, name))

\* combineComponentMesh, lines 972-975: r is the combination of the sub groups
subGroupsCombined(r, idList) ==
    [st |-> r.st, mesh |-> r.mesh, name |-> Join(idList, "&")]

\* combineComponentMesh, lines 957-975: the sub groups of one group from sub group
\* i on, and after the last one their combination, the group's mesh
subGroupLoop(snap, g, st, subGroups, i, parentId, multipleMeshes, idList) ==
    IF i > Len(subGroups)
    THEN subGroupsCombined(combineMultipleMeshes(st, multipleMeshes, TRUE), idList)
    ELSE subGroupNext(snap, g, subGroups, i, parentId, multipleMeshes, idList,
            combineComponentChildGroupMesh(snap, g, st, subGroups[i], parentId),
            Join(subGroups[i], "|"))

\* combineComponentMesh, lines 973-975: sg is the group's mesh
groupNext(snap, g, groups, i, parentId, groupMeshes, sg) ==
    IF ~sg.mesh.alloc
    THEN groupLoop(snap, g, sg.st, groups, i + 1, parentId, groupMeshes)
    ELSE groupLoop(snap, g, sg.st, groups, i + 1, parentId,
            Append(groupMeshes,
                   [mesh |-> sg.mesh, mode |-> groups[i].mode, id |-> sg.name]))

\* combineComponentMesh, lines 921-977: the groups from group i on, and after the
\* last one their combination (line 977)
groupLoop(snap, g, st, groups, i, parentId, groupMeshes) ==
    IF i > Len(groups)
    THEN combineMultipleMeshes(st, groupMeshes, TRUE)
    ELSE groupNext(snap, g, groups, i, parentId, groupMeshes,
            subGroupLoop(snap, g, st,
                colorSubGroups(groups[i].entries, 1,
                    [used |-> {}, subGroups |-> <<>>, lastColorName |-> ""]),
                1, parentId, <<>>, <<>>))

\* combineComponentMesh, lines 983-1000, with the history of the call: st is the
\* state at the call, st2 the state at the return
componentReturned(g, st, st2, componentIdString, component, componentCache, served, mesh) ==
    [st |-> [st2 EXCEPT !.compCalls = Append(@,
               [id |-> componentIdString,
                dirty |-> componentIdString \in g.dirtyComponentIds,
                hadEntry |-> componentIdString \in DOMAIN st.components,
                hadMesh |-> componentCache.mesh.alloc,
                served |-> served,
                isLeaf |-> component.linkDataType = "partId",
                part |-> IF component.linkDataType = "partId"
                         THEN component.linkData ELSE "",
                attempts |-> SubSeq(st2.partCalls, Len(st.partCalls) + 1,
                                    Len(st2.partCalls)),
                isSuccessfulBefore |-> st.isSuccessful,
                isSuccessfulAfter |-> st2.isSuccessful,
                entryBefore |-> componentCache,
                entryAfter |-> st2.components[componentIdString],
                partsBefore |-> st.parts,
                partsAfter |-> st2.parts])],
     mesh |-> IF ~served /\ mesh.alloc /\ mesh.isNull THEN Nullptr ELSE mesh,
     combineMode |-> componentCombineMode(component)]

\* lines 980-981: the combined mesh is copied into the component's entry
componentStored(g, st, st1, componentIdString, component, componentCache, mesh) ==
    IF mesh.alloc
    THEN componentReturned(g, st,
            [st1 EXCEPT !.components[componentIdString].mesh = mesh],
            componentIdString, component, componentCache, FALSE, mesh)
    ELSE componentReturned(g, st, st1,
            componentIdString, component, componentCache, FALSE, mesh)

\* lines 879-893: r2 is the result of the last build attempt
leafStored(g, st, componentIdString, component, componentCache, r2) ==
    componentStored(g, st,
        [r2.st EXCEPT
           !.isSuccessful = IF r2.hasError THEN FALSE ELSE @,
           !.parts = Put(@, component.linkData,
                         At(@, component.linkData, EmptyPartCache)),
           !.components = Put(@, componentIdString,
               leafComponentCache(At(r2.st.parts, component.linkData, EmptyPartCache)))],
        componentIdString, component, componentCache, r2.mesh)

\* lines 871-878: r1 is the result of the first build attempt
leafBuilt(snap, g, st, componentIdString, component, componentCache, r1) ==
    leafStored(g, st, componentIdString, component, componentCache,
               retryPart(snap, g, r1, component.linkData))

\* lines 977-981: gm is the result of combining the groups
groupsCombined(g, st, componentIdString, component, componentCache, gm) ==
    componentStored(g, st, gm.st, componentIdString, component, componentCache,
                    gm.mesh)

\* lines 850-978: the component was found; componentCache is its entry
componentEntered(snap, g, st, componentIdString, component, componentCache) ==
    IF /\ g.cacheEnabled
       /\ notDirty(g.dirtyComponentIds, componentIdString)
       /\ componentCache.mesh.alloc
    THEN componentReturned(g, st,
            [st EXCEPT !.components = Put(@, componentIdString, componentCache)],
            componentIdString, component, componentCache, TRUE,
            componentCache.mesh)
    ELSE IF component.linkDataType = "partId"
    THEN leafBuilt(snap, g, st, componentIdString, component, componentCache,
            combinePartMesh(snap,
                [st EXCEPT !.components = Put(@, componentIdString, clearedComponentCache)],
                component.linkData, FALSE, g.interpolationEnabled))
    ELSE groupsCombined(g, st, componentIdString, component, componentCache,
            groupLoop(snap, g,
                [st EXCEPT !.components = Put(@, componentIdString, clearedComponentCache)],
                combineGroups(snap, split(component.children, ","), 1, <<>>, "Count"),
                1, componentIdString, <<>>))

\* MeshGenerator::combineComponentMesh.  g holds the generator's members that the
\* call only reads (m_dirtyComponentIds, m_cacheEnabled, m_interpolationEnabled).
combineComponentMesh(snap, g, st, componentIdString) ==
    IF ~findComponent(snap, componentIdString).found
    THEN [st |-> st, mesh |-> Nullptr, combineMode |-> "Normal"]
    ELSE componentEntered(snap, g, st, componentIdString,
                          findComponent(snap, componentIdString),
                          At(st.components, componentIdString, EmptyComponentCache))

-----------------------------------------------------------------------------
(* The scenes the generator is run on *)

CompA == "{ca000000-0000-0000-0000-000000000001}"
CompB == "{cb000000-0000-0000-0000-000000000002}"
CompC == "{cc000000-0000-0000-0000-000000000003}"
CompG == "{c8000000-0000-0000-0000-000000000004}"
CompH == "{c9000000-0000-0000-0000-000000000005}"
PartA == "{ba000000-0000-0000-0000-000000000006}"
PartB == "{bb000000-0000-0000-0000-000000000007}"
PartC == "{bc000000-0000-0000-0000-000000000008}"
FillMeshId == "{f0000000-0000-0000-0000-000000000009}"

NodeOf(partId) == "{d" \o Substr(partId, 2, 36)

Leaf(id, partId) ==
    [id |-> id, dirty |-> FALSE, linkDataType |-> "partId", linkData |-> partId,
     children |-> "", combineMode |-> "Normal", inverse |-> FALSE, found |-> TRUE]

Group(id, children) ==
    [id |-> id, dirty |-> FALSE, linkDataType |-> "", linkData |-> "",
     children |-> Join(children, ","), combineMode |-> "Normal", inverse |-> FALSE, found |-> TRUE]

Part(id) ==
    [EmptyPart EXCEPT !.id = id, !.target = "Model", !.shape = "good"]

Leaves == (CompA :> Leaf(CompA, PartA)) @@ (CompB :> Leaf(CompB, PartB))
             @@ (CompC :> Leaf(CompC, PartC))

Scene(rootChildren, groups) ==
    [parts |-> [p \in {PartA, PartB, PartC} |-> Part(p)],
     nodes |-> [n \in {NodeOf(PartA), NodeOf(PartB), NodeOf(PartC)} |->
                  [partId |-> "{b" \o Substr(n, 2, 36), cutFace |-> ""]],
     components |-> Leaves @@ groups,
     rootComponent |-> Group(NilUuid, rootChildren),
     interpolationEnabled |-> TRUE]

\* The component trees
Trees ==
    { Scene(<<CompA, CompB, CompC>>, [k \in {} |-> NoComponent]),
      Scene(<<CompG, CompC>>, (CompG :> Group(CompG, <<CompA, CompB>>))),
      Scene(<<CompG>>, (CompG :> Group(CompG, <<CompA, CompH>>))
                          @@ (CompH :> Group(CompH, <<CompB, CompC>>))) }

Shapes == {"needsRetry", "broken", "nullMesh", "incombinable", "hostile",
           "vanishing", "leaky"}

\* What a scene may have that the plain trees have not
Features ==
    [kind : {"shape"}, on : {PartA, PartB}, value : Shapes]
    \cup [kind : {"disabled", "mirror"}, on : {PartA}, value : {""}]
    \cup [kind : {"target", "brokenTarget"}, on : {PartC}, value : {"CutFace"}]
    \cup [kind : {"cutFace", "nodeCutFace"}, on : {PartB}, value : {PartC}]
    \cup [kind : {"fillMesh"}, on : {PartB}, value : {FillMeshId}]
    \cup [kind : {"combineMode"}, on : {CompB}, value : {"Inversion", "Uncombined"}]
    \cup [kind : {"inverse"}, on : {CompA, CompC}, value : {""}]
    \cup [kind : {"interpolationOff", "none"}, on : {""}, value : {""}]

WithFeature(doc, f) ==
    CASE f.kind = "shape" -> [doc EXCEPT !.parts[f.on].shape = f.value]
      [] f.kind = "disabled" -> [doc EXCEPT !.parts[f.on].disabled = TRUE]
      [] f.kind = "mirror" -> [doc EXCEPT !.parts[f.on].xMirrored = TRUE]
      [] f.kind = "target" -> [doc EXCEPT !.parts[f.on].target = f.value]
      [] f.kind = "brokenTarget" -> [doc EXCEPT !.parts[f.on].target = f.value,
                                                !.parts[f.on].shape = "broken"]
      [] f.kind = "cutFace" -> [doc EXCEPT !.parts[f.on].cutFace = f.value]
      [] f.kind = "nodeCutFace" -> [doc EXCEPT !.nodes[NodeOf(f.on)].cutFace = f.value]
      [] f.kind = "fillMesh" -> [doc EXCEPT !.parts[f.on].fillMesh = f.value]
      [] f.kind = "combineMode" -> [doc EXCEPT !.components[f.on].combineMode = f.value]
      [] f.kind = "inverse" -> [doc EXCEPT !.components[f.on].inverse = TRUE]
      [] f.kind = "interpolationOff" -> [doc EXCEPT !.interpolationEnabled = FALSE]
      [] f.kind = "missingChild" ->
            IF f.on = NilUuid
            THEN [doc EXCEPT !.rootComponent.children =
                                Join(Append(split(@, ","), f.value), ",")]
            ELSE [doc EXCEPT !.components[f.on].children =
                                Join(Append(split(@, ","), f.value), ",")]
      [] OTHER -> doc

\* What the caller may do to the scene between two generations; every change is
\* flagged __dirty on what it changed
Edits ==
    [kind : {"dirtyPart"}, on : {PartA, PartB, PartC}]
    \cup [kind : {"dirtyComponent"}, on : {CompA, CompG}]
    \cup [kind : {"removeComponent"}, on : {CompC}]
    \cup [kind : {"removePart"}, on : {PartB}]
    \cup [kind : {"reshape"}, on : {PartA, PartB}]
    \cup [kind : {"toggleInversion"}, on : {CompB, CompC}]
    \cup [kind : {"reorder"}, on : {NilUuid}]
    \cup [kind : {"none"}, on : {""}]

EditApplies(doc, e) ==
    CASE e.kind \in {"dirtyPart", "removePart", "reshape"} -> e.on \in DOMAIN doc.parts
      [] e.kind \in {"dirtyComponent", "removeComponent", "toggleInversion"} ->
            e.on \in DOMAIN doc.components
      [] OTHER -> TRUE

RemoveFrom(children, id) ==
    Join(SelectSeq(split(children, ","), LAMBDA c : c # id), ",")

WithEdit(doc, e) ==
    CASE e.kind = "dirtyPart" -> [doc EXCEPT !.parts[e.on].dirty = TRUE]
      [] e.kind = "dirtyComponent" -> [doc EXCEPT !.components[e.on].dirty = TRUE]
      [] e.kind = "reshape" ->
            [doc EXCEPT !.parts[e.on].dirty = TRUE,
                        !.parts[e.on].shape = IF @ = "good" THEN "broken" ELSE "good"]
      [] e.kind = "toggleInversion" ->
            [doc EXCEPT !.components[e.on].dirty = TRUE,
                        !.components[e.on].combineMode =
                            IF @ = "Inversion" THEN "Normal" ELSE "Inversion"]
      [] e.kind = "reorder" ->
            [doc EXCEPT !.rootComponent.dirty = TRUE,
                        !.rootComponent.children =
                            Join([i \in 1..Len(split(@, ",")) |->
                                    split(@, ",")[Len(split(@, ",")) + 1 - i]], ",")]
      [] e.kind = "removePart" ->
            [doc EXCEPT !.parts = Without(@, {e.on}),
                        !.nodes = Without(@, {NodeOf(e.on)})]
      [] e.kind = "removeComponent" ->
            LET partId == doc.components[e.on].linkData
                rest == Without(doc.components, {e.on})
            IN [doc EXCEPT
                  !.parts = Without(@, {partId}),
                  !.nodes = Without(@, {NodeOf(partId)}),
                  !.rootComponent.children = RemoveFrom(@, e.on),
                  !.rootComponent.dirty =
                      e.on \in Range(split(doc.rootComponent.children, ",")),
                  !.components = [c \in DOMAIN rest |->
                      [rest[c] EXCEPT !.children = RemoveFrom(@, e.on),
                                      !.dirty = e.on \in Range(split(rest[c].children, ","))]]]
      [] OTHER -> doc

\* The flags the caller clears once a snapshot has been taken
Cleaned(doc) ==
    [doc EXCEPT !.parts = [p \in DOMAIN doc.parts |-> [doc.parts[p] EXCEPT !.dirty = FALSE]],
                !.components = [c \in DOMAIN doc.components |->
                                  [doc.components[c] EXCEPT !.dirty = FALSE]],
                !.rootComponent.dirty = FALSE]

\* How many snapshots are taken after the first
MaxRounds == 1

-----------------------------------------------------------------------------
(* generate() *)

SnapshotOf(doc) ==
    [parts |-> doc.parts, nodes |-> doc.nodes, components |-> doc.components,
     rootComponent |-> doc.rootComponent]

\* An Object as constructed: its nodes, the geometry of the combined mesh, the
\* geometries appended by collectIncombinableMesh (with the component they were
\* collected for) and those appended by collectErroredParts
EmptyObject == [alloc |-> TRUE, nodes |-> <<>>, combined |-> "", uncombined |-> <<>>,
                errored |-> {}]

\* m_object when the generator holds no Object: nullptr
NullObject == [EmptyObject EXCEPT !.alloc = FALSE]

\* A GeneratedCacheContext as constructed
EmptyContext ==
    [parts |-> [k \in {} |-> EmptyPartCache],
     components |-> [k \in {} |-> EmptyComponentCache],
     cachedCombination |-> EmptyMap,
     partMirrorIdMap |-> [k \in {} |-> ""]]

\* A MeshGenerator as constructed on a snapshot
NewGenerator(doc) ==
    [pc |-> "idle", dirtyComponentIds |-> {}, dirtyPartIds |-> {},
     isSuccessful |-> FALSE, cacheEnabled |-> FALSE,
     interpolationEnabled |-> doc.interpolationEnabled,
     combinedMesh |-> Nullptr, object |-> NullObject]

\* The history of a generator: taken is what its takeObject calls returned
EmptyLog ==
    [keysBefore |-> {}, purged |-> {}, partCalls |-> <<>>, compCalls |-> <<>>,
     csgCalls |-> <<>>, cmmCalls |-> <<>>, earlier |-> <<>>, taken |-> <<>>]

\* generate, lines 1462-1477: the part entries that stay
partKept(c, snap, k) ==
    \/ k \in DOMAIN snap.parts
    \/ /\ k \in DOMAIN c.partMirrorIdMap
       /\ c.partMirrorIdMap[k] \in DOMAIN snap.parts

\* A faulty variant: no combination is purged with a component
purgedKeys_None(c, gone) == {}

\* generate, lines 1478-1493: the combination keys that go with purged components
purgedKeys(c, gone) ==
    {k \in DOMAIN c.cachedCombination : \E id \in gone : Contains(k, id)}

\* generate, lines 1462-1493
purge(c, snap) ==
    LET goneParts == {k \in DOMAIN c.parts : ~partKept(c, snap, k)}
        gone == DOMAIN c.components \ DOMAIN snap.components
    IN [parts |-> Without(c.parts, goneParts),
        partMirrorIdMap |-> Without(c.partMirrorIdMap,
                                    goneParts \cap DOMAIN c.partMirrorIdMap),
        cachedCombination |-> Without(c.cachedCombination, purgedKeys(c, gone)),
        components |-> Without(c.components, gone)]

\* A faulty variant: only the key equal to the id is evicted
keyIsDirty_Exact(key, dirtyComponentId) == key = dirtyComponentId

\* generate, line 1501: the test that evicts a combination
keyIsDirty(key, dirtyComponentId) == Contains(key, dirtyComponentId)

\* generate, lines 1499-1508
evict(cachedCombination, dirtyComponentIds) ==
    Without(cachedCombination,
            {k \in DOMAIN cachedCombination :
               \E d \in dirtyComponentIds : keyIsDirty(k, d)})

Init ==
    /\ \E tree \in Trees, f \in Features : document = WithFeature(tree, f)
    /\ snapshot = SnapshotOf(document)
    /\ ctx = EmptyContext
    /\ gen = NewGenerator(document)
    /\ log = EmptyLog
    /\ rounds = 0

\* generate, lines 1445-1454
generate_preprocessMirror ==
    /\ gen.pc = "idle"
    /\ snapshot' = preprocessMirror(snapshot)
    /\ gen' = [gen EXCEPT !.pc = "purge", !.isSuccessful = TRUE,
                          !.object = EmptyObject]
    /\ log' = [EmptyLog EXCEPT !.keysBefore = DOMAIN ctx.cachedCombination,
                               !.earlier = log.earlier \o log.cmmCalls]
    /\ UNCHANGED <<ctx, document, rounds>>

\* generate, lines 1456-1494 (the context was given by setGeneratedCacheContext)
generate_purge ==
    /\ gen.pc = "purge"
    /\ ctx' = purge(ctx, snapshot)
    /\ gen' = [gen EXCEPT !.pc = "dirty", !.cacheEnabled = TRUE]
    /\ log' = [log EXCEPT !.purged = DOMAIN ctx.components \ DOMAIN snapshot.components]
    /\ UNCHANGED <<snapshot, document, rounds>>

\* generate, lines 1496-1497
generate_checkDirtyFlags ==
    /\ gen.pc = "dirty"
    /\ LET d == checkDirtyFlags(snapshot)
       IN gen' = [gen EXCEPT !.pc = "evict", !.dirtyComponentIds = d.components,
                             !.dirtyPartIds = d.parts]
    /\ UNCHANGED <<snapshot, ctx, log, document, rounds>>

\* A variant of line 1510 that leaves the dirty set as checkDirtyFlags made it
dirtyWithRoot_Omitted(dirtyComponentIds) == dirtyComponentIds

\* generate, line 1510: the nil-UUID root joins the dirty set
dirtyWithRoot(dirtyComponentIds) == dirtyComponentIds \cup {NilUuid}

\* generate, lines 1499-1510
generate_evict ==
    /\ gen.pc = "evict"
    /\ ctx' = [ctx EXCEPT !.cachedCombination = evict(@, gen.dirtyComponentIds)]
    /\ gen' = [gen EXCEPT !.pc = "combine", !.dirtyComponentIds = dirtyWithRoot(@)]
    /\ UNCHANGED <<snapshot, log, document, rounds>>

\* generate, lines 1512-1513
generate_combine ==
    /\ gen.pc = "combine"
    /\ LET st == [parts |-> ctx.parts, components |-> ctx.components,
                  cachedCombination |-> ctx.cachedCombination,
                  isSuccessful |-> gen.isSuccessful,
                  partCalls |-> <<>>, compCalls |-> <<>>,
                  csgCalls |-> <<>>, cmmCalls |-> <<>>]
           r == combineComponentMesh(snapshot, gen, st, NilUuid)
       IN /\ ctx' = [ctx EXCEPT !.parts = r.st.parts,
                                !.components = r.st.components,
                                !.cachedCombination = r.st.cachedCombination]
          /\ gen' = [gen EXCEPT !.pc = "collect", !.isSuccessful = r.st.isSuccessful,
                                !.combinedMesh = r.mesh]
          /\ log' = [log EXCEPT !.partCalls = r.st.partCalls,
                                !.compCalls = r.st.compCalls,
                                !.csgCalls = r.st.csgCalls,
                                !.cmmCalls = r.st.cmmCalls]
    /\ UNCHANGED <<snapshot, document, rounds>>

\* MeshGenerator::collectIncombinableMesh: the mesh's geometry is appended to the
\* object; owner names the component the call is made for
collectIncombinableMesh(object, mesh, owner) ==
    IF ~mesh.alloc THEN object
    ELSE [object EXCEPT !.uncombined = Append(@, [geo |-> mesh.geo, owner |-> owner])]

\* The collectors work on c = [components, object, isSuccessful, invalidAccess]:
\* the context's components, m_object and m_isSuccessful; invalidAccess tells
\* that *component was read for a component findComponent did not find.
RECURSIVE collectUncombinedComponent(_, _, _)
RECURSIVE uncombinedChildren(_, _, _, _)
RECURSIVE collectIncombinableComponentMeshes(_, _, _)
RECURSIVE incombinableChildren(_, _, _, _)

\* A variant of uncombinedCollected without lines 1309-1315: the mesh of the
\* Uncombined component is not appended to the Object
uncombinedCollected_Skipped(c, componentIdString, componentCache) ==
    [c EXCEPT !.components = Put(@, componentIdString, componentCache)]

\* collectUncombinedComponent, lines 1306-1316: componentCache is the entry
uncombinedCollected(c, componentIdString, componentCache) ==
    IF NullOrIsNull(componentCache.mesh)
    THEN [c EXCEPT !.components = Put(@, componentIdString, componentCache)]
    ELSE [c EXCEPT !.components = Put(@, componentIdString, componentCache),
                   !.object = collectIncombinableMesh(
                                 [@ EXCEPT !.nodes = @ \o componentCache.objectNodes],
                                 componentCache.mesh, componentIdString)]

\* collectUncombinedComponent, lines 1318-1322
uncombinedChildren(snap, c, children, i) ==
    IF i > Len(children) THEN c
    ELSE IF children[i] = "" THEN uncombinedChildren(snap, c, children, i + 1)
    ELSE uncombinedChildren(snap, collectUncombinedComponent(snap, c, children[i]),
                            children, i + 1)

\* MeshGenerator::collectUncombinedComponent
collectUncombinedComponent(snap, c, componentIdString) ==
    IF componentCombineMode(findComponent(snap, componentIdString)) = "Uncombined"
    THEN uncombinedCollected(c, componentIdString,
                             At(c.components, componentIdString, EmptyComponentCache))
    ELSE IF ~findComponent(snap, componentIdString).found
    THEN [c EXCEPT !.invalidAccess = TRUE]
    ELSE uncombinedChildren(snap, c,
            split(findComponent(snap, componentIdString).children, ","), 1)

\* collectIncombinableComponentMeshes, lines 1264-1267
RECURSIVE incombinableCollected(_, _, _, _)
incombinableCollected(c, componentIdString, meshes, i) ==
    IF i > Len(meshes) THEN c
    ELSE incombinableCollected(
            [c EXCEPT !.isSuccessful = FALSE,
                      !.object = collectIncombinableMesh(@, meshes[i], componentIdString)],
            componentIdString, meshes, i + 1)

\* collectIncombinableComponentMeshes, lines 1268-1272
incombinableChildren(snap, c, children, i) ==
    IF i > Len(children) THEN c
    ELSE IF children[i] = "" THEN incombinableChildren(snap, c, children, i + 1)
    ELSE incombinableChildren(snap,
            collectIncombinableComponentMeshes(snap, c, children[i]), children, i + 1)

\* lines 1263-1272: c1 is the state once the component's own meshes are collected
incombinableDescend(snap, c1, componentIdString) ==
    IF ~findComponent(snap, componentIdString).found
    THEN [c1 EXCEPT !.invalidAccess = TRUE]
    ELSE incombinableChildren(snap, c1,
            split(findComponent(snap, componentIdString).children, ","), 1)

\* MeshGenerator::collectIncombinableComponentMeshes
collectIncombinableComponentMeshes(snap, c, componentIdString) ==
    IF componentCombineMode(findComponent(snap, componentIdString)) = "Uncombined"
    THEN c
    ELSE incombinableDescend(snap,
            incombinableCollected(
               [c EXCEPT !.components = Put(@, componentIdString,
                            At(@, componentIdString, EmptyComponentCache))],
               componentIdString,
               At(c.components, componentIdString, EmptyComponentCache).incombinableMeshes,
               1),
            componentIdString)

\* MeshGenerator::collectErroredParts: the geometry of the joined parts that failed
collectErroredParts(parts, object) ==
    [object EXCEPT !.errored =
        {parts[k].vertices : k \in {p \in DOMAIN parts :
                                       ~parts[p].isSuccessful /\ parts[p].joined}}]

\* generate, lines 1515-1541: the object takes the root's nodes and the combined
\* mesh's geometry (the weld loop and recoverQuads are followed on their own below)
objectOf(components, combinedMesh) ==
    [EmptyObject EXCEPT
       !.nodes = At(components, NilUuid, EmptyComponentCache).objectNodes,
       !.combined = IF combinedMesh.alloc THEN combinedMesh.geo ELSE ""]

\* generate, lines 1545-1546
collected(snap, components, object, isSuccessful) ==
    collectIncombinableComponentMeshes(snap,
        collectUncombinedComponent(snap,
            [components |-> components, object |-> object,
             isSuccessful |-> isSuccessful, invalidAccess |-> FALSE],
            NilUuid),
        NilUuid)

\* generate, lines 1515-1549, c being what the collectors leave.  Reading the
\* children of a component that was not found is undefined: the call may end
\* there, or go on as if the component listed no child.
collectEnded(c) ==
    /\ \E ends \in {e \in BOOLEAN : e => c.invalidAccess} :
          gen' = IF ends THEN [gen EXCEPT !.pc = "crashed"]
                 ELSE [gen EXCEPT !.pc = "done",
                                  !.isSuccessful = c.isSuccessful,
                                  !.object = collectErroredParts(ctx.parts, c.object)]
    /\ ctx' = [ctx EXCEPT !.components = c.components]

generate_collect ==
    /\ gen.pc = "collect"
    /\ collectEnded(collected(snapshot, ctx.components,
                                    objectOf(ctx.components, gen.combinedMesh),
                                    gen.isSuccessful))
    /\ UNCHANGED <<snapshot, log, document, rounds>>

\* generate without a cache context, lines 1515-1549, r being the result of
\* combineComponentMesh on the root: the outcomes of the call.  As in
\* collectEnded, when the collectors read the children of a component that was
\* not found the call may end there (crashed: no Object is finished and nothing
\* returns) or go on as if the component listed no child.
freshCollected(snap, r) ==
    UNION {{[crashed |-> ends, combinedMesh |-> r.mesh,
             isSuccessful |-> IF ends THEN r.st.isSuccessful ELSE c.isSuccessful,
             object |-> IF ends THEN EmptyObject
                        ELSE collectErroredParts(r.st.parts, c.object),
             compCalls |-> r.st.compCalls, partCalls |-> r.st.partCalls,
             csgCalls |-> r.st.csgCalls] :
               ends \in {e \in BOOLEAN : e => c.invalidAccess}} :
            c \in {collected(snap, r.st.components,
                             objectOf(r.st.components, r.mesh), r.st.isSuccessful)}}

\* generate without a cache context, lines 1496-1549, d being the dirty sets
freshCombined(doc, snap, d) ==
    UNION {freshCollected(snap, r) :
            r \in {combineComponentMesh(snap,
                      [NewGenerator(doc) EXCEPT
                          !.isSuccessful = TRUE,
                          !.object = EmptyObject,
                          !.dirtyComponentIds = dirtyWithRoot(d.components),
                          !.dirtyPartIds = d.parts],
                      [parts |-> EmptyContext.parts,
                       components |-> EmptyContext.components,
                       cachedCombination |-> EmptyContext.cachedCombination,
                       isSuccessful |-> TRUE,
                       partCalls |-> <<>>, compCalls |-> <<>>,
                       csgCalls |-> <<>>, cmmCalls |-> <<>>],
                      NilUuid)}}

\* generate without a cache context, lines 1496-1557, on the mirrored snapshot
freshChecked(doc, snap) ==
    UNION {freshCombined(doc, snap, d) : d \in {checkDirtyFlags(snap)}}

\* MeshGenerator::generate on a generator that was given no cache context
\* (lines 1455-1458: a context of its own, m_cacheEnabled left false): the set
\* of the outcomes of the call, more than one where its behaviour is undefined
generateFresh(doc) ==
    UNION {freshChecked(doc, snap) : snap \in {preprocessMirror(SnapshotOf(doc))}}

\* How many times the caller calls takeObject on one generator
MaxTakes == 2

\* MeshGenerator::takeObject, called when generate has returned: the caller is
\* handed m_object, the Object or nullptr, and the generator holds nullptr
takeObject ==
    /\ gen.pc = "done"
    /\ Len(log.taken) < MaxTakes
    /\ log' = [log EXCEPT !.taken = Append(@, gen.object)]
    /\ gen' = [gen EXCEPT !.object = NullObject]
    /\ UNCHANGED <<snapshot, ctx, document, rounds>>

\* The caller edits the scene, takes a snapshot of it and constructs the next
\* generator on it, with the same cache context
takeSnapshot ==
    /\ gen.pc = "done"
    /\ rounds < MaxRounds
    /\ \E e \in Edits :
          /\ EditApplies(document, e)
          /\ document' = WithEdit(Cleaned(document), e)
    /\ snapshot' = SnapshotOf(document')
    /\ gen' = NewGenerator(document')
    /\ rounds' = rounds + 1
    /\ UNCHANGED <<ctx, log>>

Next ==
    \/ generate_preprocessMirror
    \/ generate_purge
    \/ generate_checkDirtyFlags
    \/ generate_evict
    \/ generate_combine
    \/ generate_collect
    \/ takeObject
    \/ takeSnapshot

Spec == Init /\ [][Next]_vars

-----------------------------------------------------------------------------
(* generate() once, on scenes with what the collectors tell apart *)

\* An id no component has
CompM == "{cd000000-0000-0000-0000-00000000000a}"

CollectFeatures ==
    [kind : {"shape"}, on : {PartA, PartB}, value : {"incombinable", "nullMesh", "broken"}]
    \cup [kind : {"combineMode"}, on : {CompA, CompB, CompG, CompH}, value : {"Uncombined"}]
    \cup [kind : {"missingChild"}, on : {NilUuid, CompG}, value : {CompM}]
    \cup [kind : {"none"}, on : {""}, value : {""}]

FeatureApplies(doc, f) ==
    CASE f.kind = "combineMode" -> f.on \in DOMAIN doc.components
      [] f.kind = "missingChild" -> f.on = NilUuid \/ f.on \in DOMAIN doc.components
      [] OTHER -> TRUE

\* The features that set a combine mode, and none
CollectModes == {f \in CollectFeatures : f.kind \in {"combineMode", "none"}}

InitCollect ==
    /\ \E tree \in Trees, f1 \in CollectFeatures, f2 \in CollectFeatures,
          f3 \in CollectModes :
          /\ FeatureApplies(tree, f1)
          /\ FeatureApplies(tree, f2)
          /\ FeatureApplies(tree, f3)
          /\ document = WithFeature(WithFeature(WithFeature(tree, f1), f2), f3)
    /\ snapshot = SnapshotOf(document)
    /\ ctx = EmptyContext
    /\ gen = NewGenerator(document)
    /\ log = EmptyLog
    /\ rounds = 0

NextCollect ==
    \/ generate_preprocessMirror
    \/ generate_purge
    \/ generate_checkDirtyFlags
    \/ generate_evict
    \/ generate_combine
    \/ generate_collect
    \/ takeObject

SpecCollect == InitCollect /\ [][NextCollect]_vars

-----------------------------------------------------------------------------
(* combineMultipleMeshes on its own *)

\* combineMultipleMeshes takes any vector of (mesh, mode, id).  Here it is called
\* on three submeshes of every kind, and then once more, with the same cache, on
\* the same submeshes in an order and with modes chosen again.

FoldIds == <<CompA, CompB, CompC>>

\* The submesh a caller passes under an id: nullptr, or a mesh of some class
FoldKinds == {"nullptr", "nullMesh", "incombinable", "good", "hostile", "vanishing",
              "leaky"}

FoldMesh(kind, id) == IF kind = "nullptr" THEN Nullptr ELSE NewMesh(kind, id)

FoldModes == {"Normal", "Inversion"}

FoldInputs ==
    {[n \in DOMAIN FoldIds |->
         [mesh |-> FoldMesh(kinds[n], FoldIds[n]), mode |-> modes[n], id |-> FoldIds[n]]] :
       kinds \in [DOMAIN FoldIds -> FoldKinds], modes \in [DOMAIN FoldIds -> FoldModes]}

\* The submeshes of an earlier call in another order and with other modes
FoldAgainInputs(multipleMeshes) ==
    {[n \in DOMAIN multipleMeshes |->
         [mesh |-> multipleMeshes[order[n]].mesh, mode |-> modes[n],
          id |-> multipleMeshes[order[n]].id]] :
       order \in {o \in [DOMAIN multipleMeshes -> DOMAIN multipleMeshes] :
                     \A a, b \in DOMAIN multipleMeshes : o[a] = o[b] => a = b},
       modes \in [DOMAIN multipleMeshes -> FoldModes]}

InitFold ==
    /\ document = Scene(FoldIds, [k \in {} |-> NoComponent])
    /\ snapshot = SnapshotOf(document)
    /\ ctx = EmptyContext
    /\ gen = [NewGenerator(document) EXCEPT !.pc = "fold", !.isSuccessful = TRUE]
    /\ log = EmptyLog
    /\ rounds = 0

\* The state a call of combineMultipleMeshes works on; each call is made by a
\* generator of its own, whose generate() has set m_isSuccessful (line 1445)
FoldState ==
    [parts |-> ctx.parts, components |-> ctx.components,
     cachedCombination |-> ctx.cachedCombination,
     isSuccessful |-> TRUE,
     partCalls |-> <<>>, compCalls |-> <<>>, csgCalls |-> <<>>, cmmCalls |-> <<>>]

\* What a call of combineMultipleMeshes leaves behind
folded(r, pc) ==
    /\ ctx' = [ctx EXCEPT !.cachedCombination = r.st.cachedCombination]
    /\ gen' = [gen EXCEPT !.pc = pc, !.isSuccessful = r.st.isSuccessful]
    /\ log' = [log EXCEPT !.csgCalls = r.st.csgCalls,
                          !.cmmCalls = r.st.cmmCalls,
                          !.earlier = log.earlier \o log.cmmCalls]
    /\ UNCHANGED <<snapshot, document, rounds>>

foldFirst ==
    /\ gen.pc = "fold"
    /\ \E multipleMeshes \in FoldInputs, recombine \in BOOLEAN :
          folded(combineMultipleMeshes(FoldState, multipleMeshes, recombine), "foldAgain")

foldAgain ==
    /\ gen.pc = "foldAgain"
    /\ \E multipleMeshes \in FoldAgainInputs(log.cmmCalls[1].multipleMeshes) :
          folded(combineMultipleMeshes(FoldState, multipleMeshes,
                                       log.cmmCalls[1].recombine), "folded")

NextFold ==
    \/ foldFirst
    \/ foldAgain

SpecFold == InitFold /\ [][NextFold]_vars

-----------------------------------------------------------------------------
(* preprocessMirror on its own *)

\* preprocessMirror is run on snapshots whose parts are mirrored or not, whose
\* ids include one that reads the same reversed and one that is the reverse of
\* another, and whose leaves sit under the root, under groups or under nothing.

PalindromePart == "{ab000000-0000-0000-0000-0000000000ba}"
PalindromeComp == "{c1000000-0000-0000-0000-00000000001c}"

\* The ids of the three parts, of the leaf linked to the first and of the leaf
\* linked to the second, which may be the reverse of the first leaf's id
MirrorIds ==
    {ids \in [p1 : {PartA, PalindromePart}, p2 : {PartB},
              p3 : {PartC, reverseUuid(PartB)},
              c1 : {CompA, PalindromeComp}, c2 : {CompB, reverseUuid(CompA)}] :
        ids.c2 = reverseUuid(CompA) => ids.c1 = CompA}

\* The component trees over the leaves c1, c2, CompC: flat, nested, a chain,
\* one whose first leaf no component lists, one whose root lists no child, and
\* one with a group whose id is the reverse of the first leaf's id
MirrorTrees(c1, c2) ==
    { [root |-> <<c1, c2, CompC>>, groups |-> [k \in {} |-> NoComponent]],
      [root |-> <<CompG, CompC>>, groups |-> (CompG :> Group(CompG, <<c1, c2>>))],
      [root |-> <<CompG>>, groups |-> (CompG :> Group(CompG, <<CompH, c1>>))
                                         @@ (CompH :> Group(CompH, <<c2, CompC>>))],
      [root |-> <<c2, CompC>>, groups |-> [k \in {} |-> NoComponent]],
      [root |-> <<>>, groups |-> [k \in {} |-> NoComponent]] }
    \cup {[root |-> <<c1, g>>, groups |-> (g :> Group(g, <<c2>>))] :
             g \in {reverseUuid(c1)} \ {c1, c2}}

\* What may follow the last id of the root's children string
TrailingSeperators == {"", ",", ",,"}

MirrorScene(ids, tree, mirrored) ==
    [parts |-> [p \in {ids.p1, ids.p2, ids.p3} |->
                  [Part(p) EXCEPT !.xMirrored = p \in mirrored]],
     nodes |-> [n \in {NodeOf(ids.p1), NodeOf(ids.p2), NodeOf(ids.p3)} |->
                  [partId |-> "{b" \o Substr(n, 2, 36), cutFace |-> ""]],
     components |-> (ids.c1 :> Leaf(ids.c1, ids.p1)) @@ (ids.c2 :> Leaf(ids.c2, ids.p2))
                       @@ (CompC :> Leaf(CompC, ids.p3)) @@ tree.groups,
     rootComponent |-> Group(NilUuid, tree.root),
     interpolationEnabled |-> TRUE]

InitMirror ==
    /\ \E ids \in MirrorIds :
         \E tree \in MirrorTrees(ids.c1, ids.c2), mirrored \in SUBSET {ids.p1, ids.p2, ids.p3},
            tail \in TrailingSeperators :
            document = [MirrorScene(ids, tree, mirrored) EXCEPT
                           !.rootComponent.children = @ \o tail]
    /\ snapshot = SnapshotOf(document)
    /\ ctx = EmptyContext
    /\ gen = [NewGenerator(document) EXCEPT !.pc = "mirror"]
    /\ log = EmptyLog
    /\ rounds = 0

mirror ==
    /\ gen.pc = "mirror"
    /\ snapshot' = preprocessMirror(snapshot)
    /\ gen' = [gen EXCEPT !.pc = "mirrored"]
    /\ UNCHANGED <<ctx, log, document, rounds>>

NextMirror == mirror

SpecMirror == InitMirror /\ [][NextMirror]_vars

-----------------------------------------------------------------------------
(* Faces: isWatertight, collectSharedQuadEdges and recoverQuads *)

\* A face is a sequence of vertex indices (counted from 0); a vertex is a
\* position, of which the code only reads the PositionKey.

\* PositionKey(position): the cell the position is quantized to
PositionKey(position) == position.cell

\* The half edges (face[i], face[(i + 1) % size]) of a face, in order
halfEdgesOf(face) ==
    [i \in 1..Len(face) |-> <<face[i], face[(i % Len(face)) + 1]>>]

\* The half edges of all faces in the order the loops of isWatertight meet them
RECURSIVE allHalfEdges(_)
allHalfEdges(faces) ==
    IF faces = <<>> THEN <<>>
    ELSE halfEdgesOf(Head(faces)) \o allHalfEdges(Tail(faces))

\* isWatertight, lines 100-107: insert until an insertion finds the edge present
RECURSIVE insertHalfEdges(_, _, _)
insertHalfEdges(edges, i, halfEdges) ==
    IF i > Len(edges) THEN [inserted |-> TRUE, halfEdges |-> halfEdges]
    ELSE IF edges[i] \in halfEdges THEN [inserted |-> FALSE, halfEdges |-> halfEdges]
    ELSE insertHalfEdges(edges, i + 1, halfEdges \cup {edges[i]})

\* A faulty variant: the opposite half edges are not looked for
oppositesFound_Always(halfEdges) == TRUE

\* isWatertight, lines 108-111
oppositesFound(halfEdges) ==
    \A it \in halfEdges : <<it[2], it[1]>> \in halfEdges

\* MeshGenerator::isWatertight
isWatertight(faces) ==
    LET r == insertHalfEdges(allHalfEdges(faces), 1, {})
    IN IF ~r.inserted THEN FALSE ELSE oppositesFound(r.halfEdges)

\* MeshGenerator::collectSharedQuadEdges, added to the set given
RECURSIVE collectSharedQuadEdges(_, _, _)
collectSharedQuadEdges(vertices, faces, sharedQuadEdges) ==
    IF faces = <<>> THEN sharedQuadEdges
    ELSE LET face == Head(faces)
         IN collectSharedQuadEdges(vertices, Tail(faces),
               IF Len(face) # 4 THEN sharedQuadEdges
               ELSE sharedQuadEdges
                       \cup {<<PositionKey(vertices[face[1] + 1]),
                               PositionKey(vertices[face[3] + 1])>>,
                             <<PositionKey(vertices[face[2] + 1]),
                               PositionKey(vertices[face[4] + 1])>>})

\* recoverQuads, lines 121-129: triangleEdgeMap, a later triangle overwriting an
\* earlier one on the same half edge; triangles are counted from 0
RECURSIVE triangleEdgeMap(_, _, _)
triangleEdgeMap(triangles, i, map) ==
    IF i > Len(triangles) THEN map
    ELSE LET faceIndices == triangles[i]
         IN triangleEdgeMap(triangles, i + 1,
               IF Len(faceIndices) # 3 THEN map
               ELSE (<<faceIndices[3], faceIndices[1]>>
                        :> [face |-> i - 1, opposite |-> faceIndices[2]])
                    @@ (<<faceIndices[2], faceIndices[3]>>
                        :> [face |-> i - 1, opposite |-> faceIndices[1]])
                    @@ (<<faceIndices[1], faceIndices[2]>>
                        :> [face |-> i - 1, opposite |-> faceIndices[3]])
                    @@ map)

\* operator< of std::pair<size_t, size_t>
PairLess(e, f) == e[1] < f[1] \/ (e[1] = f[1] /\ e[2] < f[2])

\* The keys of a std::map keyed by pairs, in iteration order
RECURSIVE SortedPairs(_)
SortedPairs(S) ==
    IF S = {} THEN <<>>
    ELSE LET m == CHOOSE x \in S : \A y \in S \ {x} : PairLess(x, y)
         IN <<m>> \o SortedPairs(S \ {m})

\* recoverQuads, line 140
oppositeIsFree(unionedFaces, face) == face \notin unionedFaces

\* recoverQuads, line 135
isSharedQuadEdge(sharedQuadEdges, pair) == pair \in sharedQuadEdges

\* recoverQuads, lines 131-151, one edge of the map.  a carries unionedFaces, the
\* new faces and, as history, the two triangles of each new face.
unionStep(a, verticesPositionKeys, sharedQuadEdges, map, edge) ==
    IF map[edge].face \in a.unionedFaces THEN a
    ELSE IF ~isSharedQuadEdge(sharedQuadEdges,
                              <<verticesPositionKeys[edge[1] + 1],
                                verticesPositionKeys[edge[2] + 1]>>) THEN a
    ELSE IF <<edge[2], edge[1]>> \notin DOMAIN map THEN a
    ELSE IF ~oppositeIsFree(a.unionedFaces, map[<<edge[2], edge[1]>>].face) THEN a
    ELSE [unionedFaces |-> a.unionedFaces
                              \cup {map[edge].face, map[<<edge[2], edge[1]>>].face},
          faces |-> Append(a.faces,
                       <<map[edge].opposite, edge[1],
                         map[<<edge[2], edge[1]>>].opposite, edge[2]>>),
          unions |-> Append(a.unions,
                       [first |-> map[edge].face,
                        second |-> map[<<edge[2], edge[1]>>].face,
                        edge |-> edge])]

RECURSIVE unionLoop(_, _, _, _, _, _)
unionLoop(a, verticesPositionKeys, sharedQuadEdges, map, edges, i) ==
    IF i > Len(edges) THEN a
    ELSE unionLoop(unionStep(a, verticesPositionKeys, sharedQuadEdges, map, edges[i]),
                   verticesPositionKeys, sharedQuadEdges, map, edges, i + 1)

\* recoverQuads, lines 153-157: the triangles not unioned, in their order
RECURSIVE remainingTriangles(_, _, _)
remainingTriangles(triangles, i, unionedFaces) ==
    IF i > Len(triangles) THEN <<>>
    ELSE (IF (i - 1) \in unionedFaces THEN <<>> ELSE <<triangles[i]>>)
            \o remainingTriangles(triangles, i + 1, unionedFaces)

\* MeshGenerator::recoverQuads; the result is what is appended to
\* triangleAndQuads, with the history of the unions
recoverQuads(vertices, triangles, sharedQuadEdges) ==
    LET verticesPositionKeys == [i \in DOMAIN vertices |-> PositionKey(vertices[i])]
        map == triangleEdgeMap(triangles, 1, <<>>)
        a == unionLoop([unionedFaces |-> {}, faces |-> <<>>, unions |-> <<>>],
                       verticesPositionKeys, sharedQuadEdges, map,
                       SortedPairs(DOMAIN map), 1)
    IN [triangleAndQuads |-> a.faces \o remainingTriangles(triangles, 1, a.unionedFaces),
        unions |-> a.unions]

\* The three are run on triangle lists over four vertices, the last of which
\* may lie where the first lies, with the shared quad edges of at most one quad.

VertexIds == {0, 1, 2, 3}

MaxFaces == 3

\* The triangles with three distinct vertices, written from their least vertex
ProperTriangles ==
    {<<a, b, c>> : a \in VertexIds, b \in VertexIds, c \in VertexIds} \cap
    {t \in Seq(VertexIds) : Len(t) = 3 /\ t[1] < t[2] /\ t[1] < t[3] /\ t[2] # t[3]}

\* The triangles that name one vertex twice, the lesser vertex first and last
DegenerateTriangles ==
    {<<a, b, a>> : a \in VertexIds, b \in VertexIds} \cap
    {t \in Seq(VertexIds) : Len(t) = 3 /\ t[1] < t[2]}

\* The triangles a list given to isWatertight or recoverQuads is made of
TrianglePool == ProperTriangles \cup DegenerateTriangles

\* The quads with four distinct vertices, written from their least vertex
QuadPool ==
    {<<a, b, c, d>> : a \in VertexIds, b \in VertexIds, c \in VertexIds, d \in VertexIds}
    \cap {q \in Seq(VertexIds) : /\ Len(q) = 4
                                /\ Cardinality({q[1], q[2], q[3], q[4]}) = 4
                                /\ q[1] < q[2] /\ q[1] < q[3] /\ q[1] < q[4]}

\* The positions of the vertices: each in a cell of its own, or the last one in
\* the cell of the first
VertexLists ==
    {[i \in 1..Cardinality(VertexIds) |->
         IF coincide /\ i = Cardinality(VertexIds)
         THEN [cell |-> 0, offset |-> 1] ELSE [cell |-> i - 1, offset |-> 0]] :
       coincide \in BOOLEAN}

InitFaces ==
    /\ \E vertices \in VertexLists, n \in 0..MaxFaces :
         \E triangles \in [1..n -> TrianglePool], quads \in {<<>>} \cup {<<q>> : q \in QuadPool} :
            document = [vertices |-> vertices, triangles |-> triangles, quads |-> quads]
    /\ snapshot = document
    /\ ctx = EmptyContext
    /\ gen = [pc |-> "faces"]
    /\ log = [sharedQuadEdges |-> {}, watertight |-> FALSE,
              triangleAndQuads |-> <<>>, unions |-> <<>>]
    /\ rounds = 0

\* combineComponentMesh, line 887: the quads of the part's faces are collected
faces_collectSharedQuadEdges ==
    /\ gen.pc = "faces"
    /\ log' = [log EXCEPT !.sharedQuadEdges =
                 collectSharedQuadEdges(document.vertices, document.quads, {})]
    /\ gen' = [gen EXCEPT !.pc = "collected"]
    /\ UNCHANGED <<snapshot, ctx, document, rounds>>

\* combineTwoMeshes, line 1124
faces_isWatertight ==
    /\ gen.pc = "collected"
    /\ log' = [log EXCEPT !.watertight = isWatertight(document.triangles \o document.quads)]
    /\ gen' = [gen EXCEPT !.pc = "checked"]
    /\ UNCHANGED <<snapshot, ctx, document, rounds>>

\* generate, line 1539
faces_recoverQuads ==
    /\ gen.pc = "checked"
    /\ LET r == recoverQuads(document.vertices, document.triangles, log.sharedQuadEdges)
       IN log' = [log EXCEPT !.triangleAndQuads = r.triangleAndQuads,
                             !.unions = r.unions]
    /\ gen' = [gen EXCEPT !.pc = "recovered"]
    /\ UNCHANGED <<snapshot, ctx, document, rounds>>

NextFaces ==
    \/ faces_collectSharedQuadEdges
    \/ faces_isWatertight
    \/ faces_recoverQuads

SpecFaces == InitFaces /\ [][NextFaces]_vars

-----------------------------------------------------------------------------
(* The weld loop of generate *)

\* Positions lie on a line and are counted in units of 0.0125, so that the
\* threshold 0.025 handed to weldVertices is 2.
WeldThreshold == 2

Distance(p, q) == IF p < q THEN q - p ELSE p - q

\* weldVertices, one edge (x, y): y is welded onto x when both are nearer than the
\* threshold, neither lies at a protected position and neither was welded in
\* this pass.  a carries the target of each welded vertex and the affected ones.
weldEdge(vertices, threshold, excludePositions, a, edge) ==
    IF /\ edge[1] # edge[2]
       /\ edge[1] \notin a.affected
       /\ edge[2] \notin a.affected
       /\ vertices[edge[1] + 1] \notin excludePositions
       /\ vertices[edge[2] + 1] \notin excludePositions
       /\ Distance(vertices[edge[1] + 1], vertices[edge[2] + 1]) < threshold
    THEN [target |-> (edge[2] :> edge[1]) @@ a.target,
          affected |-> a.affected \cup {edge[1], edge[2]},
          affectedNum |-> a.affectedNum + 1]
    ELSE a

\* The edges in turn, each with what the edges before it left
RECURSIVE weldEdges(_, _, _, _, _, _)
weldEdges(vertices, threshold, excludePositions, a, edges, i) ==
    IF i > Len(edges) THEN a
    ELSE CHOOSE r \in {weldEdges(vertices, threshold, excludePositions, next, edges, i + 1) :
                          next \in {weldEdge(vertices, threshold, excludePositions, a, edges[i])}} :
            TRUE

\* The vertices left after a pass, in their order, and the new index of each
RECURSIVE keptVertices(_, _, _)
keptVertices(vertices, i, target) ==
    IF i > Len(vertices) THEN <<>>
    ELSE (IF (i - 1) \in DOMAIN target THEN <<>> ELSE <<i - 1>>)
            \o keptVertices(vertices, i + 1, target)

newIndexOf(kept, target, v) ==
    LET w == IF v \in DOMAIN target THEN target[v] ELSE v
    IN (CHOOSE k \in DOMAIN kept : kept[k] = w) - 1

\* The faces after a pass: those that keep three different vertices
RECURSIVE weldedFacesOf(_, _, _)
weldedFacesOf(faces, kept, target) ==
    IF faces = <<>> THEN <<>>
    ELSE LET face == [k \in DOMAIN Head(faces) |-> newIndexOf(kept, target, Head(faces)[k])]
         IN (IF Cardinality({face[k] : k \in DOMAIN face}) = Len(face) THEN <<face>> ELSE <<>>)
               \o weldedFacesOf(Tail(faces), kept, target)

\* weldVertices: what it hands back for the welds a found, kept being the
\* vertices left
weldedMesh(vertices, faces, a, kept) ==
    [weldedVertices |-> [k \in DOMAIN kept |-> vertices[kept[k] + 1]],
     weldedFaces |-> weldedFacesOf(faces, kept, a.target),
     affectedNum |-> a.affectedNum]

weldedBy(vertices, faces, a) ==
    CHOOSE r \in {weldedMesh(vertices, faces, a, kept) :
                     kept \in {keptVertices(vertices, 1, a.target)}} : TRUE

\* weldVertices(vertices, faces, threshold, protected)
\*    -> (newVertices, newFaces, affectedCount)
weldVertices(vertices, faces, allowedSmallestDistance, excludePositions) ==
    CHOOSE r \in {weldedBy(vertices, faces, a) :
                     a \in {weldEdges(vertices, allowedSmallestDistance, excludePositions,
                                      [target |-> <<>>, affected |-> {}, affectedNum |-> 0],
                                      edges, 1) : edges \in {allHalfEdges(faces)}}} : TRUE

\* A faulty variant: one pass only
anotherPass_Never(affectedNum) == FALSE

\* generate, line 1537: while (affectedNum > 0)
anotherPass(affectedNum) == affectedNum > 0

\* The loop is run on meshes of up to MaxWeldFaces triangles, each of three
\* different vertices as the combiner hands them out, over four vertices at the
\* positions 0, 1 and 2, the first at 0, with no position or position 1
\* protected.

MaxWeldFaces == 2

WeldPositions == {0, 1, 2}

WeldVertexLists ==
    {v \in [1..Cardinality(VertexIds) -> WeldPositions] : v[1] = 0}

InitWeld ==
    /\ \E vertices \in WeldVertexLists, n \in 0..MaxWeldFaces, seam \in {{}, {1}} :
         \E faces \in [1..n -> ProperTriangles] :
            document = [vertices |-> vertices, faces |-> faces, noneSeamVertices |-> seam]
    /\ snapshot = document
    /\ ctx = EmptyContext
    /\ \E enabled \in BOOLEAN,
          mesh \in {Nullptr, [Nullptr EXCEPT !.alloc = TRUE, !.isNull = FALSE,
                                             !.isCombinable = TRUE, !.geo = "combined"]} :
          gen = [pc |-> "fetched", weldEnabled |-> enabled, combinedMesh |-> mesh,
                 affectedNum |-> 0, totalAffectedNum |-> 0]
    /\ log = [passes |-> <<>>, first |-> <<>>, output |-> document]
    /\ rounds = 0

\* generate, lines 1523-1527
weld_enter ==
    /\ gen.pc = "fetched"
    /\ gen' = [gen EXCEPT !.pc = IF gen.combinedMesh.alloc /\ gen.weldEnabled
                                  THEN "weld" ELSE "skipped",
                          !.affectedNum = 0, !.totalAffectedNum = 0]
    /\ UNCHANGED <<snapshot, ctx, document, log, rounds>>

\* generate, lines 1531-1537: what the loop does with the result r of a pass
weldedWith(r) ==
    /\ document' = [document EXCEPT !.vertices = r.weldedVertices,
                                    !.faces = r.weldedFaces]
    /\ gen' = [gen EXCEPT !.affectedNum = r.affectedNum,
                          !.totalAffectedNum = @ + r.affectedNum,
                          !.pc = IF anotherPass(r.affectedNum) THEN @
                                 ELSE IF @ = "weld" THEN "welded" ELSE "rewelded"]
    /\ log' = [log EXCEPT !.passes =
                  Append(@, [before |-> Len(document.vertices),
                             after |-> Len(r.weldedVertices),
                             affectedNum |-> r.affectedNum,
                             changed |-> \/ r.weldedVertices # document.vertices
                                         \/ r.weldedFaces # document.faces])]

\* generate, lines 1528-1537: one pass of the loop and its test
weld_pass ==
    /\ gen.pc \in {"weld", "reweld"}
    /\ \E r \in {weldVertices(document.vertices, document.faces, WeldThreshold,
                              document.noneSeamVertices)} : weldedWith(r)
    /\ UNCHANGED <<snapshot, ctx, rounds>>

\* The loop of lines 1525-1537 entered again with what it left
weld_again ==
    /\ gen.pc = "welded"
    /\ gen' = [gen EXCEPT !.pc = "reweld", !.affectedNum = 0, !.totalAffectedNum = 0]
    /\ log' = [passes |-> <<>>, first |-> log.passes, output |-> document]
    /\ UNCHANGED <<snapshot, ctx, document, rounds>>

NextWeld ==
    \/ weld_enter
    \/ weld_pass
    \/ weld_again

SpecWeld == InitWeld /\ [][NextWeld]_vars

\* The statements of generate follow one another: a loop that can make a pass
\* makes it
SpecWeldFair == SpecWeld /\ WF_vars(NextWeld)

-----------------------------------------------------------------------------
(* The grouping of a component's children, on its own *)

\* The longest children list drawn
MaxChildren == 3

\* The pieces a children list is drawn from: three leaves, an id that names no
\* component, and the empty piece that String::split yields for ",,"
ChildPool == {CompA, CompB, CompC, CompM, ""}

\* The colour attributes given to the parts of the three leaves
ColorSchemes ==
    { <<[color |-> "", colorSolubility |-> ""], [color |-> "", colorSolubility |-> ""],
        [color |-> "", colorSolubility |-> ""]>>,
      <<[color |-> "red", colorSolubility |-> ""], [color |-> "blue", colorSolubility |-> ""],
        [color |-> "white", colorSolubility |-> ""]>>,
      <<[color |-> "white", colorSolubility |-> ""], [color |-> "red", colorSolubility |-> ""],
        [color |-> "red", colorSolubility |-> ""]>>,
      <<[color |-> "red", colorSolubility |-> "true"], [color |-> "white", colorSolubility |-> ""],
        [color |-> "", colorSolubility |-> ""]>>,
      <<[color |-> "#ffffffff", colorSolubility |-> ""], [color |-> "#ff0000ff", colorSolubility |-> ""],
        [color |-> "#ffffffff", colorSolubility |-> "true"]>> }

\* A leaf with the attributes that give it the combine mode
LeafWithMode(id, partId, mode) ==
    [Leaf(id, partId) EXCEPT
       !.combineMode = IF mode = "Uncombined" THEN mode ELSE "",
       !.inverse = (mode = "Inversion")]

\* A document whose root lists the children, the leaves having the modes and
\* their parts the colours
GroupScene(children, modes, scheme) ==
    [Scene(children, [k \in {} |-> NoComponent]) EXCEPT
       !.components = (CompA :> LeafWithMode(CompA, PartA, modes[CompA]))
                         @@ (CompB :> LeafWithMode(CompB, PartB, modes[CompB]))
                         @@ (CompC :> LeafWithMode(CompC, PartC, modes[CompC])),
       !.parts = (PartA :> [Part(PartA) EXCEPT !.color = scheme[1].color,
                                               !.colorSolubility = scheme[1].colorSolubility])
                    @@ (PartB :> [Part(PartB) EXCEPT !.color = scheme[2].color,
                                               !.colorSolubility = scheme[2].colorSolubility])
                    @@ (PartC :> [Part(PartC) EXCEPT !.color = scheme[3].color,
                                               !.colorSolubility = scheme[3].colorSolubility])]

InitGroups ==
    /\ \E n \in 0..MaxChildren :
         \E children \in [1..n -> ChildPool],
            modes \in [{CompA, CompB, CompC} -> {"Normal", "Inversion", "Uncombined"}],
            scheme \in ColorSchemes :
               document = GroupScene(children, modes, scheme)
    /\ snapshot = SnapshotOf(document)
    /\ ctx = EmptyContext
    /\ gen = [NewGenerator(document) EXCEPT !.pc = "group"]
    /\ log = [groups |-> <<>>, subGroups |-> <<>>]
    /\ rounds = 0

\* combineComponentMesh on the root, lines 895-918
groups_byMode ==
    /\ gen.pc = "group"
    /\ log' = [log EXCEPT !.groups =
                  combineGroups(snapshot, split(snapshot.rootComponent.children, ","),
                                1, <<>>, "Count")]
    /\ gen' = [gen EXCEPT !.pc = "color"]
    /\ UNCHANGED <<snapshot, ctx, document, rounds>>

\* combineComponentMesh on the root, lines 921-954, for each group in turn
groups_byColor ==
    /\ gen.pc = "color"
    /\ log' = [log EXCEPT !.subGroups =
                  [k \in DOMAIN log.groups |->
                      colorSubGroups(log.groups[k].entries, 1,
                          [used |-> {}, subGroups |-> <<>>, lastColorName |-> ""])]]
    /\ gen' = [gen EXCEPT !.pc = "grouped"]
    /\ UNCHANGED <<snapshot, ctx, document, rounds>>

NextGroups ==
    \/ groups_byMode
    \/ groups_byColor

SpecGroups == InitGroups /\ [][NextGroups]_vars

-----------------------------------------------------------------------------
(* The nodes and edges of a part's stroke, on their own *)

\* collectParts, lines 169-174: m_partEdgeIds[partId]
partEdgeIds(snap, partId) ==
    {e \in DOMAIN snap.edges : snap.edges[e].partId = partId /\ partId # ""}

\* combinePartMesh, lines 488-520: the keys of nodeInfos, the indexed nodes that
\* the snapshot has
nodeInfos(snap, nodeIds) == {n \in nodeIds : n \in DOMAIN snap.nodes}

\* A variant of edgeKept that does not look for the two ends among the nodes
edgeKept_Any(snap, infos, e) == e \in DOMAIN snap.edges

\* combinePartMesh, lines 523-542: the indexed edge is found in the snapshot and
\* its two ends are among the nodes found
edgeKept(snap, infos, e) ==
    /\ e \in DOMAIN snap.edges
    /\ snap.edges[e].from \in infos
    /\ snap.edges[e].to \in infos

\* combinePartMesh, lines 521-544: the set `edges`
strokeEdges(snap, edgeIds, infos) ==
    {<<snap.edges[e].from, snap.edges[e].to>> :
        e \in {x \in edgeIds : edgeKept(snap, infos, x)}}

\* combinePartMesh, lines 379-383, 407 and 487-616: the nodes and edges given
\* to the stroke of the part, index being m_partNodeIds and m_partEdgeIds, which
\* are read under searchPartIdString: the part itself or, for the twin of a
\* mirrored part, the part it mirrors; nothing is built for a part the snapshot
\* does not have
partStroke(snap, index, partIdString) ==
    IF partIdString \notin DOMAIN snap.parts
    THEN [found |-> FALSE, nodes |-> {}, edges |-> {}]
    ELSE LET searchPartIdString ==
                 IF snap.parts[partIdString].mirrorFromPartId = "" THEN partIdString
                 ELSE snap.parts[partIdString].mirrorFromPartId
         IN [found |-> TRUE,
             nodes |-> nodeInfos(snap, At(index.nodes, searchPartIdString, {})),
             edges |-> strokeEdges(snap, At(index.edges, searchPartIdString, {}),
                          nodeInfos(snap, At(index.nodes, searchPartIdString, {})))]

NodeA2 == "{da000000-0000-0000-0000-0000000000a2}"
NodeX == "{d0000000-0000-0000-0000-0000000000ff}"
EdgeIds == {"{e1000000-0000-0000-0000-000000000001}",
            "{e2000000-0000-0000-0000-000000000002}",
            "{e3000000-0000-0000-0000-000000000003}"}

\* The edges a scene may hold: between the two nodes of part A, from a node of
\* part A to the node of part B, to a node the snapshot does not have, of no
\* part, and of a part the snapshot does not have
EdgePool ==
    { [partId |-> PartA, from |-> NodeOf(PartA), to |-> NodeA2],
      [partId |-> PartA, from |-> NodeA2, to |-> NodeOf(PartB)],
      [partId |-> PartA, from |-> NodeX, to |-> NodeOf(PartA)],
      [partId |-> PartB, from |-> NodeOf(PartB), to |-> NodeOf(PartB)],
      [partId |-> "", from |-> NodeOf(PartA), to |-> NodeA2],
      [partId |-> PartC, from |-> NodeOf(PartC), to |-> NodeA2] }

\* A flat scene with a second node on part A, the edges, the parts in `gone`
\* taken out of the snapshot while their leaves and nodes stay, the parts in
\* `mirrored` flagged xMirrored, and the root listing the ids in `more` after
\* the three leaves
StrokeScene(edges, gone, mirrored, more) ==
    LET scene == Scene(<<CompA, CompB, CompC>> \o more, [k \in {} |-> NoComponent])
    IN [edges |-> edges] @@
       [scene EXCEPT
          !.nodes = @ @@ (NodeA2 :> [partId |-> PartA, cutFace |-> ""]),
          !.parts = [q \in DOMAIN Without(@, gone) |->
                       [@[q] EXCEPT !.xMirrored = q \in mirrored]]]

InitStroke ==
    /\ \E ids \in SUBSET EdgeIds, gone \in {{}, {PartB}, {PartC}},
          mirrored \in {{}, {PartA}}, more \in {<<>>, <<CompM>>} :
         \E edges \in [ids -> EdgePool] :
            document = StrokeScene(edges, gone, mirrored, more)
    /\ snapshot = [edges |-> document.edges] @@ SnapshotOf(document)
    /\ ctx = EmptyContext
    /\ gen = [NewGenerator(document) EXCEPT !.pc = "index"]
    /\ log = [index |-> [nodes |-> <<>>, edges |-> <<>>], strokes |-> <<>>,
              run |-> <<>>]
    /\ rounds = 0

\* The parts a leaf links or a node or an edge names
StrokeParts(snap) ==
    {snap.components[c].linkData : c \in DOMAIN snap.components}
        \cup {snap.nodes[n].partId : n \in DOMAIN snap.nodes}
        \cup {snap.edges[e].partId : e \in DOMAIN snap.edges}

\* generate, lines 1451 and 1496: preprocessMirror, then collectParts on the
\* snapshot it left
stroke_collectParts ==
    /\ gen.pc = "index"
    /\ snapshot' = preprocessMirror(snapshot)
    /\ log' = [log EXCEPT !.index =
                  [nodes |-> [p \in StrokeParts(snapshot') |-> partNodeIds(snapshot', p)],
                   edges |-> [p \in StrokeParts(snapshot') |-> partEdgeIds(snapshot', p)]]]
    /\ gen' = [gen EXCEPT !.pc = "build"]
    /\ UNCHANGED <<ctx, document, rounds>>

\* combinePartMesh for the part of every leaf, up to the stroke
stroke_build ==
    /\ gen.pc = "build"
    /\ log' = [log EXCEPT !.strokes =
                  [p \in {snapshot.components[c].linkData : c \in DOMAIN snapshot.components}
                      |-> partStroke(snapshot, log.index, p)]]
    /\ gen' = [gen EXCEPT !.pc = "run"]
    /\ UNCHANGED <<snapshot, ctx, document, rounds>>

\* generate as a whole on the scene
stroke_generate ==
    /\ gen.pc = "run"
    /\ \E r \in generateFresh(document) :
          /\ log' = [log EXCEPT !.run = r]
          /\ gen' = IF r.crashed THEN [gen EXCEPT !.pc = "crashed"]
                    ELSE [gen EXCEPT !.pc = "stroked", !.isSuccessful = r.isSuccessful,
                                     !.combinedMesh = r.combinedMesh,
                                     !.object = r.object]
    /\ UNCHANGED <<snapshot, ctx, document, rounds>>

NextStroke ==
    \/ stroke_collectParts
    \/ stroke_build
    \/ stroke_generate

SpecStroke == InitStroke /\ [][NextStroke]_vars

-----------------------------------------------------------------------------
(* cutFaceStringToCutTemplate: the walk over the nodes of the referenced part *)

\* lines 273-283: cutFaceNodeMap, the indexed nodes the snapshot has, with their
\* position against the canvas origin
cutFaceNodeMap(snap, nodeIds) ==
    [n \in {x \in nodeIds : x \in DOMAIN snap.nodes} |->
        [x |-> snap.nodes[n].x - snap.canvas.originX,
         y |-> snap.canvas.originY - snap.nodes[n].y]]

\* lines 294-295: both ends of an edge get the other end pushed back
linked(linkMap, from, to) ==
    LET m1 == Put(linkMap, from, Append(At(linkMap, from, <<>>), to))
    IN Put(m1, to, Append(At(m1, to, <<>>), from))

\* lines 285-296: cutFaceNodeLinkMap, from the indexed edges in the order of
\* their ids
RECURSIVE cutFaceNodeLinkMap(_, _, _, _)
cutFaceNodeLinkMap(snap, edgeIds, i, linkMap) ==
    IF i > Len(edgeIds) THEN linkMap
    ELSE IF edgeIds[i] \notin DOMAIN snap.edges
    THEN cutFaceNodeLinkMap(snap, edgeIds, i + 1, linkMap)
    ELSE cutFaceNodeLinkMap(snap, edgeIds, i + 1,
            linked(linkMap, snap.edges[edgeIds[i]].from, snap.edges[edgeIds[i]].to))

\* lines 300-306: the nodes with exactly one link that the node map has, in the
\* order of the link map
endpointNodes(nodeMap, linkMap) ==
    Sorted({n \in DOMAIN linkMap : Len(linkMap[n]) = 1 /\ n \in DOMAIN nodeMap})

\* lines 307-312: with no endpoint every node of the node map is a candidate
startCandidates(nodeMap, linkMap) ==
    IF endpointNodes(nodeMap, linkMap) = <<>> THEN Sorted(DOMAIN nodeMap)
    ELSE endpointNodes(nodeMap, linkMap)

\* Sums of a coordinate over the candidates
RECURSIVE SumOf(_, _, _)
SumOf(nodeMap, candidates, field) ==
    IF candidates = <<>> THEN 0
    ELSE nodeMap[Head(candidates)][field] + SumOf(nodeMap, Tail(candidates), field)

\* lines 315-319 and 327-329: the direction from the centre of the candidates to
\* candidate i, scaled by the number of candidates (the scale does not change
\* the normalized direction)
directionOf(nodeMap, candidates, i) ==
    [x |-> Len(candidates) * nodeMap[candidates[i]].x - SumOf(nodeMap, candidates, "x"),
     y |-> Len(candidates) * nodeMap[candidates[i]].y - SumOf(nodeMap, candidates, "y")]

\* Vector3::angleBetween against (-1, -1, 0), compared: the angle of direction a
\* is smaller than that of b exactly when its cosine is greater.  s is the dot
\* product with (-1, -1) and n the squared length; a zero direction has cosine 0.
radianLess(a, b) ==
    LET sa == 0 - (a.x + a.y)
        sb == 0 - (b.x + b.y)
        na == a.x * a.x + a.y * a.y
        nb == b.x * b.x + b.y * b.y
    IN IF na = 0 THEN sb < 0
       ELSE IF nb = 0 THEN sa > 0
       ELSE IF sa >= 0 /\ sb < 0 THEN TRUE
       ELSE IF sa < 0 /\ sb >= 0 THEN FALSE
       ELSE IF sa >= 0 THEN sa * sa * nb > sb * sb * na
       ELSE sa * sa * nb < sb * sb * na

\* lines 324-337: the candidate of minimal angle, the first one on a tie
RECURSIVE choosenEndpoint(_, _, _, _)
choosenEndpoint(nodeMap, candidates, i, choosen) ==
    IF i > Len(candidates) THEN choosen
    ELSE choosenEndpoint(nodeMap, candidates, i + 1,
            IF choosen = 0 \/ radianLess(directionOf(nodeMap, candidates, i),
                                         directionOf(nodeMap, candidates, choosen))
            THEN i ELSE choosen)

\* lines 298-339: endPointNodeIdString, empty when there is no candidate
endPointNodeIdString(nodeMap, linkMap) ==
    IF startCandidates(nodeMap, linkMap) = <<>> THEN ""
    ELSE startCandidates(nodeMap, linkMap)[
            choosenEndpoint(nodeMap, startCandidates(nodeMap, linkMap), 1, 0)]

\* A variant of nextNeighbor that takes the last neighbour not yet visited
nextNeighbor_Last(neighbors, visited) ==
    IF \A k \in DOMAIN neighbors : neighbors[k] \in visited THEN 0
    ELSE CHOOSE k \in DOMAIN neighbors :
            /\ neighbors[k] \notin visited
            /\ \A j \in DOMAIN neighbors : neighbors[j] \notin visited => j <= k

\* lines 357-362: the index of the first neighbour not yet visited, 0 if none
nextNeighbor(neighbors, visited) ==
    IF \A k \in DOMAIN neighbors : neighbors[k] \in visited THEN 0
    ELSE CHOOSE k \in DOMAIN neighbors :
            /\ neighbors[k] \notin visited
            /\ \A j \in DOMAIN neighbors : neighbors[j] \notin visited => k <= j

\* lines 343-363: loopNodeLink; w = [visited, nodes] are cutFaceVisitedNodeIds
\* and cutFaceNodes
RECURSIVE loopNodeLink(_, _, _, _)
loopNodeLink(nodeMap, linkMap, fromNodeIdString, w) ==
    IF fromNodeIdString \notin DOMAIN nodeMap THEN w
    ELSE IF fromNodeIdString \in w.visited THEN w
    ELSE IF fromNodeIdString \notin DOMAIN linkMap
    THEN [visited |-> w.visited \cup {fromNodeIdString},
          nodes |-> Append(w.nodes, fromNodeIdString)]
    ELSE IF nextNeighbor(linkMap[fromNodeIdString],
                         w.visited \cup {fromNodeIdString}) = 0
    THEN [visited |-> w.visited \cup {fromNodeIdString},
          nodes |-> Append(w.nodes, fromNodeIdString)]
    ELSE loopNodeLink(nodeMap, linkMap,
            linkMap[fromNodeIdString][nextNeighbor(linkMap[fromNodeIdString],
                                         w.visited \cup {fromNodeIdString})],
            [visited |-> w.visited \cup {fromNodeIdString},
             nodes |-> Append(w.nodes, fromNodeIdString)])

\* lines 364-366: the walk is started when there is a start node
cutFaceNodes(nodeMap, linkMap, start) ==
    IF start = "" THEN <<>>
    ELSE loopNodeLink(nodeMap, linkMap, start, [visited |-> {}, nodes |-> <<>>]).nodes

\* The most edges the referenced part is given
MaxCutEdges == 4

\* The nodes of the scene, at the corners of a convex quadrilateral
CutNodeIds == <<"{d1000000-0000-0000-0000-000000000001}",
                "{d2000000-0000-0000-0000-000000000002}",
                "{d3000000-0000-0000-0000-000000000003}",
                "{d4000000-0000-0000-0000-000000000004}">>
CutNodeX == <<4, 0, 1, 5>>
CutNodeY == <<1, 0, 4, 5>>

\* The id of the i-th edge: the ids sort in the order of i
CutEdgeId(i) == "{e0000000-0000-0000-0000-00000000000" \o Char("0123456789", i + 1) \o "}"

\* The pairs of nodes an edge may join
CutPairs == {p \in (1..4) \X (1..4) : p[1] < p[2]}

\* A snapshot whose nodes in `own` name part C (the others belong to part A)
\* and whose edges name part C, edge i joining the nodes of pairs[i]; part C
\* itself is in the snapshot when `found`
CutScene(own, pairs, found) ==
    [parts |-> [q \in {PartA} \cup {x \in {PartC} : found} |-> Part(q)],
     nodes |-> [n \in Range(CutNodeIds) |->
                  LET i == CHOOSE k \in 1..4 : CutNodeIds[k] = n
                  IN [partId |-> IF i \in own THEN PartC ELSE PartA,
                      cutFace |-> "", x |-> CutNodeX[i], y |-> CutNodeY[i]]],
     edges |-> [e \in {CutEdgeId(i) : i \in DOMAIN pairs} |->
                  LET i == CHOOSE k \in DOMAIN pairs : CutEdgeId(k) = e
                  IN [partId |-> PartC, from |-> CutNodeIds[pairs[i][1]],
                      to |-> CutNodeIds[pairs[i][2]]]],
     components |-> (CompC :> Leaf(CompC, PartC)),
     rootComponent |-> Group(NilUuid, <<CompC>>),
     canvas |-> [originX |-> 0, originY |-> 0],
     interpolationEnabled |-> TRUE]

InitCut ==
    /\ \E own \in SUBSET (1..4), n \in 0..MaxCutEdges, found \in BOOLEAN :
         \E pairs \in [1..n -> CutPairs] :
            /\ ~found => own = 1..4
            /\ document = CutScene(own, pairs, found)
    /\ snapshot = document
    /\ ctx = EmptyContext
    /\ gen = [NewGenerator(document) EXCEPT !.pc = "cut"]
    /\ log = [nodeMap |-> <<>>, linkMap |-> <<>>, isRing |-> FALSE, start |-> "",
              cutFaceNodes |-> <<>>]
    /\ rounds = 0

\* cutFaceStringToCutTemplate on the id of part C, which is no null UUID, lines
\* 265-339: when the snapshot has no such part (lines 268-270) nothing is built
\* and there is no walk; otherwise the two maps, the ring flag and the start node
cut_start ==
    /\ gen.pc = "cut"
    /\ IF UuidIsNull(PartC) \/ PartC \notin DOMAIN snapshot.parts
       THEN /\ log' = log
            /\ gen' = [gen EXCEPT !.pc = "walked"]
       ELSE /\ \E nodeMap \in {cutFaceNodeMap(snapshot, partNodeIds(snapshot, PartC))},
                  linkMap \in {cutFaceNodeLinkMap(snapshot,
                                  Sorted(partEdgeIds(snapshot, PartC)), 1, <<>>)} :
                  log' = [log EXCEPT !.nodeMap = nodeMap, !.linkMap = linkMap,
                                     !.isRing = endpointNodes(nodeMap, linkMap) = <<>>,
                                     !.start = endPointNodeIdString(nodeMap, linkMap)]
            /\ gen' = [gen EXCEPT !.pc = "walk"]
    /\ UNCHANGED <<snapshot, ctx, document, rounds>>

\* lines 340-366: the walk
cut_walk ==
    /\ gen.pc = "walk"
    /\ log' = [log EXCEPT !.cutFaceNodes =
                  cutFaceNodes(log.nodeMap, log.linkMap, log.start)]
    /\ gen' = [gen EXCEPT !.pc = "walked"]
    /\ UNCHANGED <<snapshot, ctx, document, rounds>>

NextCut ==
    \/ cut_start
    \/ cut_walk

SpecCut == InitCut /\ [][NextCut]_vars

-----------------------------------------------------------------------------
(* Properties *)

\* The Object that generate made: the generator holds it until the caller takes
\* it, and the first takeObject hands it out
madeObject == IF log.taken = <<>> THEN gen.object ELSE log.taken[1]

\* The children ids a component names
ChildrenOf(snap, id) ==
    {c \in Range(split(findComponent(snap, id).children, ",")) : c # ""}

\* The component id and every component below it in the tree
RECURSIVE Descendants(_, _)
Descendants(snap, id) ==
    IF ~findComponent(snap, id).found THEN {}
    ELSE {id} \cup UNION {Descendants(snap, c) : c \in ChildrenOf(snap, id)}

\* The components reachable from the root through children lists
Reachable(snap) == Descendants(snap, NilUuid)

\* C1: after checkDirtyFlags, every reachable component whose own __dirty is true
\* is in the dirty component set, and so is each of its ancestors up to and
\* including the nil-UUID root.
C1_DirtyAncestors ==
    gen.pc = "evict" =>
        \A c \in Reachable(snapshot) :
            findComponent(snapshot, c).dirty =>
                \A a \in Reachable(snapshot) :
                    c \in Descendants(snapshot, a) => a \in gen.dirtyComponentIds

\* A component flagged __dirty lies below a group that is not flagged itself, and
\* the component, the group and the root are all in the dirty set
C1_Witness ==
    /\ gen.pc = "evict"
    /\ \E c, a \in DOMAIN snapshot.components :
          /\ a # c
          /\ a \in Reachable(snapshot)
          /\ c \in Descendants(snapshot, a)
          /\ snapshot.components[c].dirty
          /\ ~snapshot.components[a].dirty
          /\ ~snapshot.rootComponent.dirty
          /\ {c, a, NilUuid} \subseteq gen.dirtyComponentIds

\* C2: once the eviction step has run and before any combination starts, no
\* combination-cache key that existed before the call contains the id of a dirty
\* component as a substring.
C2_NoDirtyKeySurvives ==
    gen.pc = "combine" =>
        \A d \in gen.dirtyComponentIds :
            \A k \in DOMAIN ctx.cachedCombination \cap log.keysBefore :
                ~Contains(k, d)

\* A reused context in which eviction removed a key that contains a dirty id
\* among other ids, while another key survived
C2_Witness ==
    /\ gen.pc = "combine"
    /\ rounds >= 1
    /\ \E k \in log.keysBefore \ DOMAIN ctx.cachedCombination :
          \E d \in gen.dirtyComponentIds : Contains(k, d) /\ k # d
    /\ DOMAIN ctx.cachedCombination \cap log.keysBefore # {}

\* C5: after the purge step every key of the component cache is an id of
\* snapshot.components, no combination-cache key contains the id of a purged
\* component, and every key of the part cache is an id of snapshot.parts or a
\* mirror twin (per partMirrorIdMap) whose source part is in the snapshot.
C5_PurgeLeavesOnlyLiveIds ==
    gen.pc = "dirty" =>
        /\ DOMAIN ctx.components \subseteq DOMAIN snapshot.components
        /\ \A k \in DOMAIN ctx.cachedCombination :
              \A id \in log.purged : ~Contains(k, id)
        /\ \A p \in DOMAIN ctx.parts :
              \/ p \in DOMAIN snapshot.parts
              \/ /\ p \in DOMAIN ctx.partMirrorIdMap
                 /\ ctx.partMirrorIdMap[p] \in DOMAIN snapshot.parts

\* A reused context from which the purge removed a component that left the
\* snapshot, its part, and a combination key that named the component
C5_Witness ==
    /\ gen.pc = "dirty"
    /\ rounds >= 1
    /\ \E id \in log.purged :
          /\ id # NilUuid
          /\ \E k \in log.keysBefore \ DOMAIN ctx.cachedCombination : Contains(k, id)
    /\ DOMAIN ctx.cachedCombination # {}
    /\ DOMAIN ctx.parts # {}

\* A build attempt reported an error: the target is Model and the stroke build
\* failed or the CSG wrapper of the built mesh is null
ReportedError(attempt) ==
    /\ attempt.target = "Model"
    /\ ~attempt.buildSucceed \/ attempt.wrapperIsNull

\* The part names no fill mesh, or a nil one
NoFillMesh(part) == part.fillMesh = "" \/ UuidIsNull(part.fillMesh)

\* The calls of combineComponentMesh on a component in the running generation
CallsOn(id) == {i \in DOMAIN log.compCalls : log.compCalls[i].id = id}

\* How many object nodes the entries of the given children hold together, the
\* Uncombined children left out
RECURSIVE NodesOfChildren(_, _, _)
NodesOfChildren(snap, components, children) ==
    IF children = <<>> THEN 0
    ELSE (IF Head(children) = ""
             \/ componentCombineMode(findComponent(snap, Head(children))) = "Uncombined"
          THEN 0
          ELSE Len(At(components, Head(children), EmptyComponentCache).objectNodes))
         + NodesOfChildren(snap, components, Tail(children))

\* C3 as stated: in a generation that reuses a cache context, a call of
\* combineComponentMesh on a non-root component that is not dirty and already has
\* a component-cache entry makes no call of combinePartMesh and leaves the entry
\* and the part cache unchanged.
C3_AnyEntryIsServed ==
    \A i \in DOMAIN log.compCalls :
        LET c == log.compCalls[i]
        IN (rounds >= 1 /\ c.id # NilUuid /\ ~c.dirty /\ c.hadEntry) =>
              /\ c.attempts = <<>>
              /\ c.entryAfter = c.entryBefore
              /\ c.partsAfter = c.partsBefore

\* C3, amended: the component is served from the cache when it is not dirty and
\* its cache entry holds a combined mesh; then combinePartMesh is not invoked for
\* its part or for a descendant's part, and its entry and the part cache are
\* left unchanged.
C3_CachedMeshIsServed ==
    \A i \in DOMAIN log.compCalls :
        LET c == log.compCalls[i]
        IN (rounds >= 1 /\ c.id # NilUuid /\ ~c.dirty /\ c.hadEntry /\ c.hadMesh) =>
              /\ c.served
              /\ c.attempts = <<>>
              /\ c.entryAfter = c.entryBefore
              /\ c.partsAfter = c.partsBefore

\* A second generation answered a group that is not dirty from its cached mesh,
\* while another component was rebuilt
C3_Witness ==
    /\ rounds >= 1
    /\ \E i \in DOMAIN log.compCalls :
          LET c == log.compCalls[i]
          IN c.id # NilUuid /\ ~c.dirty /\ c.hadMesh /\ c.served /\ ~c.isLeaf
    /\ log.partCalls # <<>>

\* C4: in a generation on a reused cache context, every reachable component of
\* the dirty closure is rebuilt: combineComponentMesh runs on it, never answers
\* with the cached mesh, recomputes its entry from a cleared one, and for a leaf
\* whose part is flagged __dirty combinePartMesh is invoked at least once and the
\* part-cache entry is the one the last attempt wrote.
C4_DirtyClosureIsRebuilt ==
    (gen.pc = "done" /\ rounds >= 1) =>
        \A id \in gen.dirtyComponentIds \cap Reachable(snapshot) :
            /\ CallsOn(id) # {}
            /\ \A i \in CallsOn(id) :
                  LET c == log.compCalls[i]
                  IN /\ ~c.served
                     /\ IF c.isLeaf
                        THEN c.entryAfter.objectNodes
                                = At(c.partsAfter, c.part, EmptyPartCache).objectNodes
                        ELSE Len(c.entryAfter.objectNodes)
                                = NodesOfChildren(snapshot, ctx.components,
                                        split(findComponent(snapshot, id).children, ","))
                     /\ (c.isLeaf /\ checkIsPartDirty(snapshot, c.part)) =>
                           /\ Len(c.attempts) >= 1
                           /\ \A k \in DOMAIN c.attempts : c.attempts[k].part = c.part
                           /\ c.part \in DOMAIN ctx.parts

\* The second generation rebuilt a leaf whose part was flagged __dirty and the
\* group above it, both of which had a cached mesh from the first generation
C4_Witness ==
    /\ gen.pc = "done"
    /\ rounds >= 1
    /\ \E i, j \in DOMAIN log.compCalls :
          LET c == log.compCalls[i]
              p == log.compCalls[j]
          IN /\ c.isLeaf /\ c.dirty /\ c.hadMesh /\ ~c.served
             /\ checkIsPartDirty(snapshot, c.part)
             /\ Len(c.attempts) >= 1
             /\ ~p.isLeaf /\ p.id # NilUuid /\ p.dirty /\ p.hadMesh /\ ~p.served
             /\ c.id \in Descendants(snapshot, p.id)

\* C6 as stated: at return from combineMultipleMeshes every submesh handle passed
\* in is either the returned result (and was not released) or was released
\* exactly once.
C6_SubmeshesDisposedOnce ==
    \A i \in DOMAIN log.cmmCalls :
        LET c == log.cmmCalls[i]
        IN \A j \in DOMAIN c.multipleMeshes :
              c.multipleMeshes[j].mesh.alloc =>
                  c.released[j] = (IF c.returned = j THEN 0 ELSE 1)

\* C7: for each evaluation of a leaf, combinePartMesh is invoked at most twice;
\* a second invocation happens only when the first ran with intermediate nodes
\* and reported an error and the part has no non-null fillMesh id, and it runs
\* without intermediate nodes.
C7_AtMostOneRetry ==
    gen.pc = "done" =>
        \A i \in DOMAIN log.compCalls :
            LET c == log.compCalls[i]
            IN c.isLeaf =>
                  /\ Len(c.attempts) <= 2
                  /\ \A k \in DOMAIN c.attempts : c.attempts[k].part = c.part
                  /\ Len(c.attempts) = 2 =>
                        /\ c.attempts[1].addIntermediateNodes
                        /\ ReportedError(c.attempts[1])
                        /\ NoFillMesh(snapshot.parts[c.part])
                        /\ ~c.attempts[2].addIntermediateNodes

\* A leaf was built twice: the first attempt, with intermediate nodes, reported
\* an error and the retry ran without them
C7_Witness ==
    /\ gen.pc = "done"
    /\ \E i \in DOMAIN log.compCalls :
          LET c == log.compCalls[i]
          IN /\ c.isLeaf
             /\ Len(c.attempts) = 2
             /\ ReportedError(c.attempts[1])
             /\ ~c.attempts[2].addIntermediateNodes

\* C8: a leaf clears the overall success flag exactly when the last build attempt
\* made for it reports an error, that is when the attempt's target is Model and
\* the stroke build failed or the CSG wrapper is null; an error of the first
\* attempt followed by an error-free retry leaves the flag as it was.
C8_SuccessFlagFollowsLastAttempt ==
    \A i \in DOMAIN log.compCalls :
        LET c == log.compCalls[i]
            n == Len(c.attempts)
        IN (c.isLeaf /\ ~c.served) =>
              c.isSuccessfulAfter
                 = (c.isSuccessfulBefore /\ ~(n > 0 /\ ReportedError(c.attempts[n])))

\* In one generation a leaf's first attempt reported an error and its retry did
\* not, and the success flag stayed set
C8_Witness ==
    \E i \in DOMAIN log.compCalls :
        LET c == log.compCalls[i]
        IN /\ c.isLeaf
           /\ Len(c.attempts) = 2
           /\ ReportedError(c.attempts[1])
           /\ ~ReportedError(c.attempts[2])
           /\ c.isSuccessfulBefore
           /\ c.isSuccessfulAfter

\* A submesh that takes part in a fold: non-null and combinable
Usable(mesh) == mesh.alloc /\ ~mesh.isNull /\ mesh.isCombinable

\* The positions of the usable submeshes, in the order given
UsableIndices(multipleMeshes) ==
    Ascending({i \in DOMAIN multipleMeshes : Usable(multipleMeshes[i].mesh)})

\* The operator a submesh is combined with
OperatorOf(mode) == IF mode = "Inversion" THEN "Diff" ELSE "Union"

\* The accumulator that step j of a call meets: the first usable submesh, or the
\* result of the latest earlier step that gave a non-null mesh
RECURSIVE AccumulatorAt(_, _, _)
AccumulatorAt(steps, j, first) ==
    IF j = 1 THEN first
    ELSE IF steps[j - 1].newMesh.alloc /\ ~steps[j - 1].newMesh.isNull
    THEN steps[j - 1].newMesh
    ELSE AccumulatorAt(steps, j - 1, first)

\* C9: combineMultipleMeshes folds left to right in the order given: the
\* accumulator starts as the first usable submesh, whose own mode is not used;
\* each later usable submesh is combined into the accumulator with Diff when its
\* mode is Inversion and with Union otherwise; null and non-combinable submeshes
\* take no step and never reach the CSG engine.
C9_FoldsLeftToRight ==
    /\ \A i \in DOMAIN log.cmmCalls :
          LET c == log.cmmCalls[i]
              u == UsableIndices(c.multipleMeshes)
          IN /\ Len(c.steps) = (IF Len(u) = 0 THEN 0 ELSE Len(u) - 1)
             /\ \A j \in DOMAIN c.steps :
                   /\ c.steps[j].index = u[j + 1]
                   /\ c.steps[j].second = c.multipleMeshes[u[j + 1]].mesh
                   /\ c.steps[j].method = OperatorOf(c.multipleMeshes[u[j + 1]].mode)
                   /\ c.steps[j].first
                         = AccumulatorAt(c.steps, j, c.multipleMeshes[u[1]].mesh)
                   /\ ~c.steps[j].hit =>
                         \E e \in Range(log.csgCalls) :
                            /\ e.first = c.steps[j].first
                            /\ e.second = c.steps[j].second
                            /\ e.method = c.steps[j].method
             /\ c.result = (IF Len(u) = 0 THEN Nullptr
                            ELSE AccumulatorAt(c.steps, Len(u), c.multipleMeshes[u[1]].mesh))
    /\ \A e \in Range(log.csgCalls) :
          /\ Usable(e.second)
          /\ e.first.alloc /\ ~e.first.isNull

\* One call subtracted its second submesh from the first and then united the
\* third with the difference, both steps being computed by the CSG engine
C9_Witness ==
    \E i \in DOMAIN log.cmmCalls :
        LET c == log.cmmCalls[i]
        IN /\ Len(c.steps) = 2
           /\ c.steps[1].method = "Diff" /\ ~c.steps[1].hit
           /\ c.steps[2].method = "Union" /\ ~c.steps[2].hit
           /\ c.steps[2].first = c.steps[1].newMesh
           /\ c.result = c.steps[2].newMesh

\* The key the k-th usable submesh of a call is combined under, as C10 words it
RECURSIVE KeyOf(_, _, _, _)
KeyOf(multipleMeshes, u, k, recombine) ==
    IF k = 1 THEN multipleMeshes[u[1]].id
    ELSE KeyOf(multipleMeshes, u, k - 1, recombine)
            \o (IF multipleMeshes[u[k]].mode = "Inversion" THEN "-" ELSE "+")
            \o multipleMeshes[u[k]].id
            \o (IF recombine THEN "!" ELSE "")

\* The operands of the first k usable submeshes of a call: the ids in order, each
\* after the first with its operator
OperandsOf(multipleMeshes, u, k) ==
    [n \in 1..k |->
        [id |-> multipleMeshes[u[n]].id,
         operator |-> IF n = 1 THEN "" ELSE OperatorOf(multipleMeshes[u[n]].mode)]]

\* Every combination step made so far, in this generation and the earlier ones,
\* with its key and the operands it stands for
KeyUses ==
    LET calls == log.earlier \o log.cmmCalls
    IN UNION {{[key |-> calls[i].steps[j].key,
                operands |-> OperandsOf(calls[i].multipleMeshes,
                                        UsableIndices(calls[i].multipleMeshes), j + 1)] :
                  j \in DOMAIN calls[i].steps} : i \in DOMAIN calls}

\* The ids of a sequence of operands, as a bag
IdBag(operands) ==
    [id \in {operands[n].id : n \in DOMAIN operands} |->
        Cardinality({n \in DOMAIN operands : operands[n].id = id})]

\* C10: the key of the k-th combination step is the id of the first usable
\* submesh followed, for each later usable submesh up to k, by "-" for Inversion
\* else "+", its id, and "!" when recombine is set; and two steps whose operand
\* sequences differ (in an id, in the order or in an operator) never use the
\* same key.
C10_KeyReflectsOperandsInOrder ==
    /\ \A i \in DOMAIN log.cmmCalls :
          LET c == log.cmmCalls[i]
          IN \A j \in DOMAIN c.steps :
                c.steps[j].key = KeyOf(c.multipleMeshes,
                                       UsableIndices(c.multipleMeshes), j + 1,
                                       c.recombine)
    /\ \A x, y \in KeyUses : x.operands # y.operands => x.key # y.key

\* Two steps combined the same submesh ids in a different order
C10_Witness ==
    \E x, y \in KeyUses :
        /\ Len(x.operands) = Len(y.operands)
        /\ IdBag(x.operands) = IdBag(y.operands)
        /\ \E n \in DOMAIN x.operands : x.operands[n].id # y.operands[n].id

\* The combination steps of a sequence of calls, in the order they were made
RECURSIVE StepsOf(_)
StepsOf(calls) ==
    IF calls = <<>> THEN <<>>
    ELSE StepsOf(SubSeq(calls, 1, Len(calls) - 1))
            \o [j \in DOMAIN calls[Len(calls)].steps |->
                  [step |-> calls[Len(calls)].steps[j],
                   recombine |-> calls[Len(calls)].recombine]]

\* The calls of combineMultipleMeshes and of the engine made from a cache
\* `before`, leaving the cache `after`
CacheIsConsulted(before, after, steps, engine) ==
    \A n \in DOMAIN steps :
        LET s == steps[n].step
            known == DOMAIN before \cup {steps[m].step.key : m \in 1..(n - 1)}
            invoked == {e \in DOMAIN engine : engine[e].key = s.key}
        IN /\ s.hit <=> s.key \in known
           /\ s.key \in DOMAIN after
           /\ s.newMesh = after[s.key]
           /\ s.key \in DOMAIN before =>
                 /\ invoked = {}
                 /\ after[s.key] = before[s.key]
           /\ s.key \notin DOMAIN before =>
                 /\ Cardinality(invoked) = 1
                 /\ \A e \in invoked :
                       /\ engine[e].first = s.first /\ engine[e].second = s.second
                       /\ engine[e].method = s.method
                 /\ ~s.hit =>
                       /\ s.newMesh = combineTwoMeshes(s.first, s.second, s.method,
                                                       steps[n].recombine)
                       /\ after[s.key].alloc <=> s.newMesh.alloc

\* C11: a combination step whose key is in the combination cache does not invoke
\* the CSG engine and takes a copy of the cached mesh (or the memoized null),
\* leaving the entry as it was; a step whose key is absent invokes
\* combineTwoMeshes exactly once, and afterwards the key is in the cache, mapped
\* to null exactly when the operation returned null.
C11_HitCopiesMissMemoizes ==
    [][gen.pc \in {"fold", "foldAgain", "combine"} =>
          CacheIsConsulted(ctx.cachedCombination, ctx'.cachedCombination,
                           StepsOf(log'.cmmCalls), log'.csgCalls)]_vars

\* A call took one step from the cache, a memoized null, and computed the next,
\* which the engine could not combine either
C11_Witness ==
    \E i \in DOMAIN log.cmmCalls :
        LET c == log.cmmCalls[i]
        IN /\ Len(c.steps) = 2
           /\ c.steps[1].hit /\ ~c.steps[1].newMesh.alloc
           /\ ~c.steps[2].hit /\ ~c.steps[2].newMesh.alloc
           /\ c.steps[2].key \in DOMAIN ctx.cachedCombination

\* A step that yielded no mesh
Failed(step) == ~step.newMesh.alloc \/ step.newMesh.isNull

\* C12: when a combination step yields no mesh, the accumulator stays what it
\* was, the failing submesh is not taken into it, the success flag is false at
\* the return, and the fold goes on with the next usable submesh.
C12_FailedStepKeepsAccumulator ==
    \A i \in DOMAIN log.cmmCalls :
        LET c == log.cmmCalls[i]
            u == UsableIndices(c.multipleMeshes)
        IN \A j \in DOMAIN c.steps :
              Failed(c.steps[j]) =>
                 /\ ~gen.isSuccessful
                 /\ c.returned # c.steps[j].index
                 /\ Len(c.steps) = Len(u) - 1
                 /\ IF j < Len(c.steps)
                    THEN /\ c.steps[j + 1].first = c.steps[j].first
                         /\ c.steps[j + 1].index = u[j + 2]
                         /\ c.steps[j + 1].second = c.multipleMeshes[u[j + 2]].mesh
                    ELSE c.result = c.steps[j].first

\* A step failed on a memoized null and the next step combined the following
\* submesh into the accumulator the failed step had left
C12_Witness ==
    \E i \in DOMAIN log.cmmCalls :
        LET c == log.cmmCalls[i]
        IN /\ Len(c.steps) = 2
           /\ Failed(c.steps[1]) /\ c.steps[1].hit
           /\ ~Failed(c.steps[2])
           /\ c.steps[2].first = c.steps[1].first
           /\ c.result = c.steps[2].newMesh
           /\ ~gen.isSuccessful

\* preprocessMirror has run on the snapshot taken of the document
Mirrored == gen.pc \in {"mirrored", "purge", "dirty", "evict", "combine", "collect", "done"}

\* The parts of a snapshot that are to be mirrored
MirroredParts(snap) == {p \in DOMAIN snap.parts : snap.parts[p].xMirrored}

\* C13: after preprocessMirror, for every part P of the input snapshot whose
\* xMirrored is true the parts hold a twin keyed by reverseUuid(P.id) that copies
\* P's attributes, has __mirrorFromPartId = P.id and __dirty true; the parts
\* without xMirrored get no twin: no other key is added and no other part names
\* a source.
C13_MirroredPartsGetTwins ==
    Mirrored =>
       LET input == SnapshotOf(document)
           sources == MirroredParts(input)
       IN /\ \A p \in sources :
                /\ reverseUuid(input.parts[p].id) \in DOMAIN snapshot.parts
                /\ snapshot.parts[reverseUuid(input.parts[p].id)]
                      = [input.parts[p] EXCEPT !.id = reverseUuid(input.parts[p].id),
                                               !.mirrorFromPartId = input.parts[p].id,
                                               !.dirty = TRUE]
          /\ DOMAIN snapshot.parts
                = DOMAIN input.parts \cup {reverseUuid(input.parts[p].id) : p \in sources}
          /\ \A k \in DOMAIN snapshot.parts :
                snapshot.parts[k].mirrorFromPartId # "" =>
                    snapshot.parts[k].mirrorFromPartId \in sources

\* Two parts were mirrored and a third was not
C13_Witness ==
    /\ Mirrored
    /\ Cardinality(MirroredParts(SnapshotOf(document))) = 2
    /\ Cardinality(DOMAIN snapshot.parts) = 5
    /\ Cardinality({k \in DOMAIN snapshot.parts :
                       snapshot.parts[k].mirrorFromPartId # ""}) = 2

\* C14 as stated: after preprocessMirror every original part P with xMirrored
\* true carries __mirroredByPartId, whose value is the id of P's twin part.
C14_SourceNamesItsTwin ==
    Mirrored =>
       \A p \in MirroredParts(SnapshotOf(document)) :
          /\ p \in DOMAIN snapshot.parts
          /\ snapshot.parts[p].mirroredByPartId = reverseUuid(p)

\* The leaves of a snapshot that are linked to a part to be mirrored
MirroredLeaves(snap) ==
    {c \in DOMAIN snap.components :
        /\ snap.components[c].linkDataType = "partId"
        /\ snap.components[c].linkData \in MirroredParts(snap)}

\* The children list of a component or, for the nil id, of the root
Children(snap, id) ==
    split(IF id = NilUuid THEN snap.rootComponent.children
          ELSE snap.components[id].children, ",")

\* The component whose children list gets the twin of c: the one that lists c,
\* the root (nil id) when the root lists c or nothing does
ParentOf(snap, c) ==
    IF \/ c \in Range(split(snap.rootComponent.children, ","))
       \/ \A g \in DOMAIN snap.components :
             c \notin Range(split(snap.components[g].children, ","))
    THEN NilUuid
    ELSE CHOOSE g \in DOMAIN snap.components :
            c \in Range(split(snap.components[g].children, ","))

\* A sequence without its empty pieces (String::split leaves them out of use)
RECURSIVE NonEmpty(_)
NonEmpty(list) ==
    IF list = <<>> THEN <<>>
    ELSE (IF list[1] = "" THEN <<>> ELSE <<list[1]>>) \o NonEmpty(Tail(list))

\* The twins appended to the children list of `id`, in the order of the map
TwinsUnder(snap, id) ==
    LET order == Sorted(MirroredLeaves(snap))
        F[i \in 0..Len(order)] ==
            IF i = 0 THEN <<>>
            ELSE IF ParentOf(snap, order[i]) = id
            THEN Append(F[i - 1], reverseUuid(order[i]))
            ELSE F[i - 1]
    IN F[Len(order)]

\* C15 as stated: after preprocessMirror, for every leaf C linked to a mirrored
\* part there is a twin component with id reverseUuid(C.id), linked to the twin
\* part, and its id is appended to the children of exactly the component that
\* lists C, or of the root when the root or nothing lists C; no other children
\* list changes.
C15_TwinComponentsUnderSameParent ==
    Mirrored =>
       LET input == SnapshotOf(document)
       IN /\ \A c \in MirroredLeaves(input) :
                /\ reverseUuid(c) \in DOMAIN snapshot.components
                /\ snapshot.components[reverseUuid(c)].linkData
                      = reverseUuid(input.components[c].linkData)
                /\ snapshot.components[reverseUuid(c)].linkData \in DOMAIN snapshot.parts
          /\ \A id \in (DOMAIN input.components \cup {NilUuid}) :
                NonEmpty(Children(snapshot, id))
                   = NonEmpty(Children(input, id)) \o TwinsUnder(input, id)

\* The ids reverseUuid was applied to
ReversedIds ==
    MirroredParts(SnapshotOf(document)) \cup MirroredLeaves(SnapshotOf(document))

\* C16 as stated: reverseUuid is a bijection on canonical UUID strings (distinct
\* ids give distinct twin ids, applied twice it gives the id back) and the
\* result always differs from the id, so that no twin takes its source's id.
C16_ReverseIsBijectionWithoutFixpoint ==
    Mirrored =>
       \A u, v \in ReversedIds :
          /\ IsCanonicalUuid(reverseUuid(u))
          /\ reverseUuid(reverseUuid(u)) = u
          /\ u # v => reverseUuid(u) # reverseUuid(v)
          /\ reverseUuid(u) # u

\* The places (face, corner) at which a directed edge occurs in a list of faces
Occurrences(faces, a, b) ==
    {<<f, i>> \in (DOMAIN faces) \X (1..4) :
        /\ i <= Len(faces[f])
        /\ faces[f][i] = a
        /\ faces[f][(i % Len(faces[f])) + 1] = b}

\* C17: isWatertight(faces) is true if and only if no directed edge
\* (face[i], face[(i+1) mod n]) occurs more than once over all faces and, for
\* every directed edge (a, b) that occurs, (b, a) occurs as well.
C17_WatertightIffEdgesPaired ==
    gen.pc \in {"checked", "recovered"} =>
       LET faces == document.triangles \o document.quads
       IN log.watertight <=>
             \A a \in VertexIds, b \in VertexIds :
                /\ Cardinality(Occurrences(faces, a, b)) <= 1
                /\ Occurrences(faces, a, b) # {} => Occurrences(faces, b, a) # {}

\* A quad closed by two triangles was found watertight
C17_Witness ==
    /\ gen.pc = "checked"
    /\ log.watertight
    /\ Len(document.triangles) = 2
    /\ Len(document.quads) = 1

\* Triangle t (counted from 0) runs from a to b and then to o
RunsAlong(triangles, t, a, b, o) ==
    /\ t + 1 \in DOMAIN triangles
    /\ triangles[t + 1] \in {<<a, b, o>>, <<b, o, a>>, <<o, a, b>>}

\* The vertices of a face
VerticesOf(face) == {face[i] : i \in DOMAIN face}

\* C18: every face recoverQuads emits for a triangle list has 3 or 4 vertices,
\* and every emitted 4-vertex face [o1, a, o2, b] is built from two input
\* triangles sharing the edge a-b, with (PositionKey(a), PositionKey(b)) in
\* sharedQuadEdges, and uses exactly the vertices of those two triangles.
C18_QuadsComeFromSharedEdges ==
    gen.pc = "recovered" =>
       \A k \in DOMAIN log.triangleAndQuads :
          LET face == log.triangleAndQuads[k]
          IN /\ Len(face) \in {3, 4}
             /\ Len(face) = 4 =>
                   /\ <<PositionKey(document.vertices[face[2] + 1]),
                        PositionKey(document.vertices[face[4] + 1])>>
                         \in log.sharedQuadEdges
                   /\ \E t1, t2 \in 0..(Len(document.triangles) - 1) :
                         /\ t1 # t2
                         /\ RunsAlong(document.triangles, t1, face[2], face[4], face[1])
                         /\ RunsAlong(document.triangles, t2, face[4], face[2], face[3])
                         /\ VerticesOf(face) = VerticesOf(document.triangles[t1 + 1])
                                                  \cup VerticesOf(document.triangles[t2 + 1])

\* The triangles (counted from 0) merged into quads
Merged == {log.unions[k].first : k \in DOMAIN log.unions}
             \cup {log.unions[k].second : k \in DOMAIN log.unions}

\* The triangles of a list at the places not in `out`, in their order
RECURSIVE Unmerged(_, _, _)
Unmerged(triangles, i, out) ==
    IF i > Len(triangles) THEN <<>>
    ELSE (IF (i - 1) \in out THEN <<>> ELSE <<triangles[i]>>)
            \o Unmerged(triangles, i + 1, out)

\* C19: in recoverQuads every input triangle contributes to exactly one output
\* face: it is merged with exactly one other, distinct triangle into one quad, or
\* it is emitted unchanged; no triangle is merged into two quads, and the number
\* of output faces is the number of triangles minus the number of quads.
C19_EachTriangleInOneFace ==
    gen.pc = "recovered" =>
       LET quads == {k \in DOMAIN log.triangleAndQuads : Len(log.triangleAndQuads[k]) = 4}
       IN /\ quads = DOMAIN log.unions
          /\ \A k \in DOMAIN log.unions :
                /\ log.unions[k].first # log.unions[k].second
                /\ {log.unions[k].first, log.unions[k].second}
                      \subseteq 0..(Len(document.triangles) - 1)
                /\ VerticesOf(log.triangleAndQuads[k])
                      = VerticesOf(document.triangles[log.unions[k].first + 1])
                           \cup VerticesOf(document.triangles[log.unions[k].second + 1])
                /\ \A m \in DOMAIN log.unions :
                      m # k => {log.unions[k].first, log.unions[k].second}
                                  \cap {log.unions[m].first, log.unions[m].second} = {}
          /\ SubSeq(log.triangleAndQuads, Len(log.unions) + 1, Len(log.triangleAndQuads))
                = Unmerged(document.triangles, 1, Merged)
          /\ Len(log.triangleAndQuads) = Len(document.triangles) - Len(log.unions)

\* The loop has stopped with the pass just made, the only one to affect no vertex
StoppedAtZero(passes) ==
    /\ passes # <<>>
    /\ \A k \in DOMAIN passes : (passes[k].affectedNum = 0) <=> (k = Len(passes))

\* Every pass that affected a vertex left fewer vertices than it found
EachPassDecreases(passes) ==
    \A k \in DOMAIN passes : passes[k].affectedNum > 0 => passes[k].after < passes[k].before

\* C20: with welding enabled and a non-null combined mesh, the weld loop of
\* generate repeats passes until a pass affects zero vertices and then stops;
\* every pass that affects a vertex strictly decreases the vertex count, so the
\* loop terminates; and the loop run again on its own output makes a single pass
\* that changes nothing.
C20_WeldLoopStopsAndIsIdempotent ==
    /\ [](/\ gen.pc \in {"weld", "reweld"} =>
                /\ \A k \in DOMAIN log.passes : log.passes[k].affectedNum > 0
                /\ EachPassDecreases(log.passes)
                /\ Len(log.passes) < Len(snapshot.vertices)
          /\ gen.pc \in {"welded", "rewelded"} =>
                /\ gen.weldEnabled /\ gen.combinedMesh.alloc
                /\ StoppedAtZero(log.passes)
                /\ EachPassDecreases(log.passes)
                /\ gen.affectedNum = 0
          /\ gen.pc = "rewelded" =>
                /\ Len(log.passes) = 1
                /\ ~log.passes[1].changed
                /\ gen.totalAffectedNum = 0
                /\ document = log.output)
    /\ (gen.pc = "weld") ~> (gen.pc = "welded")
    /\ (gen.pc = "reweld") ~> (gen.pc = "rewelded")

\* The loop made two passes that welded vertices and a third that found none to
\* weld, and was run again on the mesh it left
C20_Witness ==
    /\ gen.pc = "rewelded"
    /\ Len(log.first) = 3
    /\ log.first[1].affectedNum > 0
    /\ log.first[2].affectedNum > 0
    /\ Len(document.vertices) < Len(snapshot.vertices)

\* ---------------------------------------------------------------------------
\* Incombinable and uncombined meshes (combineComponentChildGroupMesh and the
\* collector passes of generate)
\* ---------------------------------------------------------------------------

\* The components above c, from the one that lists it up to the nil-UUID root
RECURSIVE AncestorsOf(_, _)
AncestorsOf(snap, c) ==
    IF c = NilUuid THEN {}
    ELSE {ParentOf(snap, c)} \cup AncestorsOf(snap, ParentOf(snap, c))

\* The combine mode the generator reads for a component id
ModeOf(snap, c) == componentCombineMode(findComponent(snap, c))

\* The component calls of this generation whose component returned a non-null
\* mesh that the engine reports as not combinable
IncombinableReturns ==
    {k \in DOMAIN log.compCalls :
        /\ log.compCalls[k].id # NilUuid
        /\ log.compCalls[k].entryAfter.mesh.alloc
        /\ ~log.compCalls[k].entryAfter.mesh.isNull
        /\ ~log.compCalls[k].entryAfter.mesh.isCombinable}

\* No CSG operation of this generation had the geometry as an operand
NeverOperand(geo) ==
    \A k \in DOMAIN log.csgCalls :
        log.csgCalls[k].first.geo # geo /\ log.csgCalls[k].second.geo # geo

\* The parent's cache entry keeps the geometry among its incombinable meshes
KeptIncombinable(parent, geo) ==
    /\ parent \in DOMAIN ctx.components
    /\ \E m \in Range(ctx.components[parent].incombinableMeshes) : m.geo = geo

\* The final Object holds the geometry, appended for the given component
Emitted(owner, geo) ==
    \E e \in Range(madeObject.uncombined) : e.geo = geo /\ e.owner = owner

\* What C21 says of one incombinable child mesh
IncombinableHandled(k) ==
    LET call == log.compCalls[k]
        geo == call.entryAfter.mesh.geo
        parent == ParentOf(snapshot, call.id)
    IN /\ NeverOperand(geo)
       /\ KeptIncombinable(parent, geo)
       /\ Emitted(parent, geo)
       /\ ~gen.isSuccessful

\* C21 as stated: every non-null child mesh that is not combinable is never a
\* CSG operand, is stored in the parent's incombinableMeshes, is appended to the
\* final Object and clears the success flag.
C21_AsStated ==
    gen.pc = "done" => \A k \in IncombinableReturns : IncombinableHandled(k)

\* No component above c, the root included, has combine mode Uncombined
Free(snap, c) == \A a \in AncestorsOf(snap, c) : ModeOf(snap, a) # "Uncombined"

\* The final Object holds the geometry among its uncombined meshes
Appended(geo) == \E e \in Range(madeObject.uncombined) : e.geo = geo

\* The success flag as combineComponentMesh on the root left it, before the
\* collector passes
FlagAfterCombine ==
    \A k \in DOMAIN log.compCalls :
        log.compCalls[k].id = NilUuid => log.compCalls[k].isSuccessfulAfter

\* The incombinable returns that the incombinable collector reaches: of a child
\* that is not Uncombined and has no Uncombined component above it
CollectedReturns ==
    {k \in IncombinableReturns :
        /\ ModeOf(snapshot, log.compCalls[k].id) # "Uncombined"
        /\ Free(snapshot, log.compCalls[k].id)}

\* C21: a non-null, not combinable mesh returned by a child is never a CSG
\* operand.  When the child's combine mode is not Uncombined it is stored in
\* the parent's incombinableMeshes; when in addition no component above the
\* child is Uncombined, generate appends its geometry to the final Object for
\* the parent and sets the success flag to false, and otherwise the geometry is
\* appended nowhere.  The mesh of an Uncombined child is not stored by the
\* parent; it is appended to the Object for the child itself when no component
\* above the child is Uncombined, and nowhere otherwise.  The collector passes
\* clear the success flag exactly when the incombinable collector reaches such
\* a mesh.
C21_IncombinableChildMeshes ==
    gen.pc = "done" =>
        /\ \A k \in IncombinableReturns :
              LET call == log.compCalls[k]
                  geo == call.entryAfter.mesh.geo
                  parent == ParentOf(snapshot, call.id)
              IN /\ NeverOperand(geo)
                 /\ IF ModeOf(snapshot, call.id) # "Uncombined"
                    THEN /\ KeptIncombinable(parent, geo)
                         /\ IF Free(snapshot, call.id)
                            THEN Emitted(parent, geo) /\ ~gen.isSuccessful
                            ELSE ~Appended(geo)
                    ELSE /\ ~KeptIncombinable(parent, geo)
                         /\ IF Free(snapshot, call.id)
                            THEN Emitted(call.id, geo) /\ ~Emitted(parent, geo)
                            ELSE ~Appended(geo)
        /\ gen.isSuccessful = (FlagAfterCombine /\ CollectedReturns = {})

\* A group below the root returned its good part combined while its incombinable
\* part went to the group's list and from there into the Object
C21_Witness ==
    /\ gen.pc = "done"
    /\ \E k \in IncombinableReturns :
         /\ ParentOf(snapshot, log.compCalls[k].id) # NilUuid
         /\ IncombinableHandled(k)
    /\ gen.combinedMesh.alloc

\* The component calls of this generation on a component whose combine mode is
\* Uncombined
UncombinedCalls ==
    {k \in DOMAIN log.compCalls :
        /\ log.compCalls[k].id # NilUuid
        /\ ModeOf(snapshot, log.compCalls[k].id) = "Uncombined"}

\* The cache entry of a component at the end of the generation
EntryOf(id) == At(ctx.components, id, EmptyComponentCache)

\* How many times the Object holds a mesh appended for the component
TimesEmitted(owner) ==
    Cardinality({i \in DOMAIN madeObject.uncombined :
                    madeObject.uncombined[i].owner = owner})

\* The Uncombined component was no CSG operand and left nothing of its own in
\* the entry of its parent
KeptOutOfParent(id) ==
    LET entry == EntryOf(id)
        parent == EntryOf(ParentOf(snapshot, id))
    IN /\ ~NullOrIsNull(entry.mesh) => NeverOperand(entry.mesh.geo)
       /\ Range(entry.objectNodes) \cap Range(parent.objectNodes) = {}
       /\ entry.noneSeamVertices \cap parent.noneSeamVertices = {}
       /\ entry.sharedQuadEdges \cap parent.sharedQuadEdges = {}

\* Nothing was appended to the Object for a component strictly below id
NothingBelowCollected(id) ==
    \A d \in Descendants(snapshot, id) \ {id} : TimesEmitted(d) = 0

\* C22 as stated: an Uncombined child is kept out of its parent, its non-null
\* mesh is appended to the final Object exactly once, and nothing below it is
\* collected separately.
C22_AsStated ==
    gen.pc = "done" =>
        \A k \in UncombinedCalls :
            LET id == log.compCalls[k].id
            IN /\ KeptOutOfParent(id)
               /\ ~NullOrIsNull(EntryOf(id).mesh) =>
                    /\ TimesEmitted(id) = 1
                    /\ Emitted(id, EntryOf(id).mesh.geo)
               /\ NothingBelowCollected(id)

\* C22: an Uncombined child is never a CSG operand of its parent and adds no
\* nodes, seam vertices or quad edges to the parent's entry; nothing below it is
\* collected separately; and its non-null cached mesh is appended to the final
\* Object exactly once when no component above it is Uncombined, and not at all
\* when one is.
C22_UncombinedChildren ==
    gen.pc = "done" =>
        \A k \in UncombinedCalls :
            LET id == log.compCalls[k].id
                free == \A a \in AncestorsOf(snapshot, id) :
                            ModeOf(snapshot, a) # "Uncombined"
            IN /\ KeptOutOfParent(id)
               /\ NothingBelowCollected(id)
               /\ ~NullOrIsNull(EntryOf(id).mesh) /\ free =>
                    /\ TimesEmitted(id) = 1
                    /\ Emitted(id, EntryOf(id).mesh.geo)
                    /\ \A n \in Range(EntryOf(id).objectNodes) :
                           n \in Range(madeObject.nodes)
               /\ ~free => TimesEmitted(id) = 0

\* An Uncombined group with a mesh of its own and nodes, seam vertices and quad
\* edges in its entry was emitted once, next to a combined mesh of the rest
C22_Witness ==
    /\ gen.pc = "done"
    /\ gen.combinedMesh.alloc
    /\ \E k \in UncombinedCalls :
         LET id == log.compCalls[k].id
         IN /\ ~log.compCalls[k].isLeaf
            /\ ~NullOrIsNull(EntryOf(id).mesh)
            /\ EntryOf(id).objectNodes # <<>>
            /\ EntryOf(id).noneSeamVertices # {}
            /\ EntryOf(id).sharedQuadEdges # {}
            /\ TimesEmitted(id) = 1

\* The ids that a children list reachable from the root names although
\* snapshot.components has no entry for them
MissingChildren(snap) ==
    {c \in UNION {ChildrenOf(snap, id) : id \in Reachable(snap)} :
        ~findComponent(snap, c).found}

\* C29: for every snapshot in which a children list names an id that has no
\* entry in snapshot.components, generate completes and produces an Object: the
\* missing child contributes no mesh and the collector passes skip it without
\* an invalid access.
C29_MissingChildIsSkipped ==
    MissingChildren(snapshot) # {} =>
        /\ gen.pc # "crashed"
        /\ gen.pc = "done" =>
             /\ \A m \in MissingChildren(snapshot) :
                   /\ TimesEmitted(m) = 0
                   /\ NullOrIsNull(EntryOf(m).mesh)
             /\ \A k \in DOMAIN log.compCalls :
                   log.compCalls[k].id \in MissingChildren(snapshot)
                       => ~log.compCalls[k].entryAfter.mesh.alloc

\* ---------------------------------------------------------------------------
\* The dirty analysis as a whole
\* ---------------------------------------------------------------------------

\* The part has __dirty set in the snapshot
PartFlagged(snap, p) == p \in DOMAIN snap.parts /\ snap.parts[p].dirty

\* The part's own cutFace, or the cutFace of one of its nodes, is the id of a
\* part that has __dirty set
CutFaceFlagged(snap, p) ==
    /\ p \in DOMAIN snap.parts
    /\ \/ PartFlagged(snap, snap.parts[p].cutFace)
       \/ \E n \in DOMAIN snap.nodes :
             /\ snap.nodes[n].partId = p
             /\ PartFlagged(snap, snap.nodes[n].cutFace)

\* The rule of C24 for one component id
RECURSIVE DirtyByRule(_, _)
DirtyByRule(snap, id) ==
    LET component == findComponent(snap, id)
    IN /\ component.found
       /\ \/ component.dirty
          \/ /\ component.linkDataType = "partId"
             /\ \/ PartFlagged(snap, component.linkData)
                \/ CutFaceFlagged(snap, component.linkData)
          \/ \E c \in ChildrenOf(snap, id) : DirtyByRule(snap, c)

\* The ids the rule is checked on: every component of the snapshot, the root,
\* every id a children list names, and an id that names nothing
RuleIds(snap) ==
    DOMAIN snap.components \cup {NilUuid, CompM}
        \cup UNION {ChildrenOf(snap, id) : id \in DOMAIN snap.components \cup {NilUuid}}

\* C24: checkIsComponentDirty(id) returns true exactly when the component exists
\* and is flagged __dirty, or links a part that is flagged, or links a part whose
\* cutFace or one of whose nodes' cutFace names a flagged part, or has a child
\* for which it returns true; after checkDirtyFlags the dirty component set is
\* exactly the visited components for which it returned true and the dirty part
\* set exactly the parts linked by a visited component that are flagged.
C24_DirtyRule ==
    /\ \A id \in RuleIds(snapshot) :
          checkIsComponentDirty(snapshot, [components |-> {}, parts |-> {}], id).isDirty
              <=> DirtyByRule(snapshot, id)
    /\ gen.pc = "evict" =>
          /\ gen.dirtyComponentIds
                = {c \in Reachable(snapshot) : DirtyByRule(snapshot, c)}
          /\ gen.dirtyPartIds
                = {p \in DOMAIN snapshot.parts :
                      /\ snapshot.parts[p].dirty
                      /\ \E c \in Reachable(snapshot) :
                            /\ findComponent(snapshot, c).linkDataType = "partId"
                            /\ findComponent(snapshot, c).linkData = p}

\* A leaf that is not flagged and links a part that is not flagged is dirty
\* because a cutFace names a flagged part, a sibling stays clean, and the dirty
\* part set holds the flagged part only
C24_Witness ==
    /\ gen.pc = "evict"
    /\ \E c \in gen.dirtyComponentIds \ {NilUuid} :
          /\ ~snapshot.components[c].dirty
          /\ snapshot.components[c].linkDataType = "partId"
          /\ ~PartFlagged(snapshot, snapshot.components[c].linkData)
          /\ snapshot.components[c].linkData \notin gen.dirtyPartIds
    /\ \E c \in Reachable(snapshot) : c \notin gen.dirtyComponentIds
    /\ gen.dirtyPartIds # {}

\* ---------------------------------------------------------------------------
\* The root is always recombined
\* ---------------------------------------------------------------------------

\* The calls of combineComponentMesh on the nil-UUID root in this generation
RootCalls == {k \in DOMAIN log.compCalls : log.compCalls[k].id = NilUuid}

\* C25: in every generate call, also one that reuses a cache context while
\* nothing is flagged dirty, the nil-UUID root is in the dirty set when the
\* combination starts, and the root is recombined from its children instead of
\* being returned from the component cache.
C25_RootAlwaysDirty ==
    /\ gen.pc = "combine" => NilUuid \in gen.dirtyComponentIds
    /\ gen.pc \in {"collect", "done"} =>
          /\ RootCalls # {}
          /\ \A k \in RootCalls :
                /\ log.compCalls[k].dirty
                /\ ~log.compCalls[k].served
          /\ \A c \in ChildrenOf(snapshot, NilUuid) :
                \E k \in DOMAIN log.compCalls : log.compCalls[k].id = c

\* A second generation on the same cache context with nothing flagged dirty: the
\* root alone was in the dirty set, the children were served from the cache, and
\* the root was recombined from them into a mesh
C25_Witness ==
    /\ gen.pc = "done"
    /\ rounds >= 1
    /\ checkDirtyFlags(snapshot).components = {}
    /\ gen.dirtyComponentIds = {NilUuid}
    /\ gen.combinedMesh.alloc
    /\ \E k \in RootCalls : ~log.compCalls[k].served
    /\ \E k \in DOMAIN log.compCalls : log.compCalls[k].served

\* ---------------------------------------------------------------------------
\* Grouping by combine mode and by colour
\* ---------------------------------------------------------------------------

\* The non-empty pieces of the root's children list, in declared order
DeclaredChildren == NonEmpty(split(snapshot.rootComponent.children, ","))

\* The ids of the entries of a group, in order
GroupIds(group) == [k \in DOMAIN group.entries |-> group.entries[k].id]

\* The sequences of a sequence of sequences, one after the other
RECURSIVE Concatenated(_)
Concatenated(lists) ==
    IF lists = <<>> THEN <<>> ELSE Head(lists) \o Concatenated(Tail(lists))

\* The position in the declared children of the first entry of group k
FirstOf(groups, k) ==
    1 + Len(Concatenated([j \in 1..(k - 1) |-> GroupIds(groups[j])]))

\* C26: the combine-mode groups, concatenated, are the non-empty child ids in
\* declared order; no group is empty; every member of a group has the group's
\* mode; an Inversion child is alone in its group; and a group starts at a child
\* exactly when its mode differs from the previous child's mode or the previous
\* child's mode is Inversion (the first child always starts one).
C26_CombineModeGroups ==
    gen.pc \in {"color", "grouped"} =>
        LET groups == log.groups
            ids == DeclaredChildren
            mode(i) == ModeOf(snapshot, ids[i])
            starts == {FirstOf(groups, k) : k \in DOMAIN groups}
        IN /\ Concatenated([k \in DOMAIN groups |-> GroupIds(groups[k])]) = ids
           /\ \A k \in DOMAIN groups :
                 /\ groups[k].entries # <<>>
                 /\ \A e \in Range(groups[k].entries) :
                       ModeOf(snapshot, e.id) = groups[k].mode
                 /\ groups[k].mode = "Inversion" => Len(groups[k].entries) = 1
           /\ \A i \in DOMAIN ids :
                 i \in starts <=>
                    \/ i = 1
                    \/ mode(i) # mode(i - 1)
                    \/ mode(i - 1) = "Inversion"

\* Two Inversion children in a row were put in two groups, and the child after
\* them, which names no component, in a Normal group
C26_Witness ==
    /\ gen.pc = "grouped"
    /\ Len(log.groups) = 3
    /\ log.groups[1].mode = "Inversion"
    /\ log.groups[2].mode = "Inversion"
    /\ log.groups[3].mode = "Normal"
    /\ log.groups[3].entries[1].id = CompM

\* C27: the colour sub-grouping of a group yields exactly one sub group, and it
\* lists all the children of the group in declared order, whatever the colour
\* and colorSolubility attributes of their parts are.
C27_OneSubGroupInOrder ==
    gen.pc = "grouped" =>
        \A k \in DOMAIN log.groups :
            /\ Len(log.subGroups[k]) = 1
            /\ log.subGroups[k][1] = GroupIds(log.groups[k])

\* ---------------------------------------------------------------------------
\* The cache against a generation without one
\* ---------------------------------------------------------------------------

\* Every leaf of the document links a part the document has: no part was taken
\* away behind a component that was left unflagged
EveryChangeFlagged ==
    \A c \in DOMAIN document.components :
        document.components[c].linkDataType = "partId"
            => document.components[c].linkData \in DOMAIN document.parts

\* The geometries the collectors appended to an Object
EmittedSet(object) == {object.uncombined[i].geo : i \in DOMAIN object.uncombined}

\* What of a mesh the caller of generate can see
Visible(mesh) == IF NullOrIsNull(mesh) THEN "" ELSE mesh.geo

\* C28: for a sequence of generate calls that share one cache context, every
\* change between two calls being flagged __dirty, each call leaves the root
\* combined mesh, the success flag and the set of uncombined and incombinable
\* meshes that a generator without a cache context leaves on the same snapshot.
C28_CacheIsTransparent ==
    (gen.pc = "done" /\ EveryChangeFlagged) =>
        \A fresh \in generateFresh(document) :
           ~fresh.crashed =>
              /\ Visible(gen.combinedMesh) = Visible(fresh.combinedMesh)
              /\ gen.isSuccessful = fresh.isSuccessful
              /\ EmittedSet(madeObject) = EmittedSet(fresh.object)

\* ---------------------------------------------------------------------------
\* Missing parts, nodes and edges
\* ---------------------------------------------------------------------------

\* The leaves whose linkData names a part the snapshot does not have
LeavesWithoutPart ==
    {c \in DOMAIN snapshot.components :
        /\ snapshot.components[c].linkDataType = "partId"
        /\ snapshot.components[c].linkData \notin DOMAIN snapshot.parts}

\* The edges of a part that name, as from or to, something that is not a node of
\* the part in the snapshot
LooseEdges(p) ==
    {e \in DOMAIN snapshot.edges :
        /\ snapshot.edges[e].partId = p
        /\ \E n \in {snapshot.edges[e].from, snapshot.edges[e].to} :
              \/ n \notin DOMAIN snapshot.nodes
              \/ snapshot.nodes[n].partId # p}

\* The part whose nodes and edges make the stroke of part p: p itself or, for
\* the twin of a mirrored part, the part it mirrors
SearchedPart(p) ==
    IF snapshot.parts[p].mirrorFromPartId = "" THEN p
    ELSE snapshot.parts[p].mirrorFromPartId

\* C23: when a leaf's linkData names a part absent from snapshot.parts, or an
\* edge's from or to node is not among the part's found nodes, generate skips
\* it and completes: nothing is built and no CSG operand is produced for the
\* missing part, a loose edge is not added to the stroke while every other edge
\* of the part (for a twin, of the part it mirrors) is, and the success flag is
\* not cleared.  The call fails to complete only where the root lists a
\* component that the snapshot does not have, never on account of a missing
\* part, node or edge.
C23_MissingEntitiesSkipped ==
    /\ gen.pc = "crashed" =>
          \E c \in Range(split(snapshot.rootComponent.children, ",")) :
             c # "" /\ c \notin DOMAIN snapshot.components
    /\ gen.pc = "stroked" =>
        /\ \A c \in LeavesWithoutPart :
              LET p == snapshot.components[c].linkData
              IN /\ ~log.strokes[p].found
                 /\ \A k \in DOMAIN log.run.partCalls : log.run.partCalls[k].part # p
                 /\ \E k \in DOMAIN log.run.compCalls : log.run.compCalls[k].id = c
                 /\ \A k \in DOMAIN log.run.compCalls :
                       log.run.compCalls[k].id = c =>
                          /\ ~log.run.compCalls[k].entryAfter.mesh.alloc
                          /\ log.run.compCalls[k].isSuccessfulAfter
                                = log.run.compCalls[k].isSuccessfulBefore
                 /\ \A k \in DOMAIN log.run.csgCalls :
                       /\ ~Contains(log.run.csgCalls[k].first.geo, p)
                       /\ ~Contains(log.run.csgCalls[k].second.geo, p)
        /\ \A p \in DOMAIN snapshot.parts :
              p \in DOMAIN log.strokes =>
                 /\ log.strokes[p].nodes
                       = {n \in DOMAIN snapshot.nodes :
                             snapshot.nodes[n].partId = SearchedPart(p)}
                 /\ log.strokes[p].edges
                       = {<<snapshot.edges[e].from, snapshot.edges[e].to>> :
                            e \in {x \in DOMAIN snapshot.edges :
                                     /\ snapshot.edges[x].partId = SearchedPart(p)
                                     /\ x \notin LooseEdges(SearchedPart(p))}}
        /\ gen.isSuccessful
        /\ gen.combinedMesh.alloc

\* A leaf names a part the snapshot does not have, part A has an edge between
\* its two nodes that went into the stroke and a loose edge that did not, the
\* stroke of part A's twin got the same edge, and the parts left were combined
C23_Witness ==
    /\ gen.pc = "stroked"
    /\ LeavesWithoutPart # {}
    /\ LooseEdges(PartA) # {}
    /\ log.strokes[PartA].edges = {<<NodeOf(PartA), NodeA2>>}
    /\ reverseUuid(PartA) \in DOMAIN log.strokes
    /\ snapshot.parts[reverseUuid(PartA)].mirrorFromPartId = PartA
    /\ log.strokes[reverseUuid(PartA)].edges = {<<NodeOf(PartA), NodeA2>>}
    /\ log.run.csgCalls # <<>>
    /\ gen.isSuccessful

\* ---------------------------------------------------------------------------
\* The walk of the cut template
\* ---------------------------------------------------------------------------

\* The nodes of part C in the snapshot and the links between them, as a graph
CutV == {n \in DOMAIN snapshot.nodes : snapshot.nodes[n].partId = PartC}

CutE == {{snapshot.edges[e].from, snapshot.edges[e].to} : e \in DOMAIN snapshot.edges}

CutDegree(n) == Cardinality({l \in CutE : n \in l})

\* The nodes that can be reached from the nodes of S over the links
RECURSIVE CutReach(_)
CutReach(S) ==
    LET more == S \cup {n \in CutV : \E m \in S : {m, n} \in CutE}
    IN IF more = S THEN S ELSE CutReach(more)

\* No edge is doubled, every edge joins two nodes of the part, and the part is
\* in one piece
CutSimple ==
    /\ Cardinality(CutE) = Cardinality(DOMAIN snapshot.edges)
    /\ \A l \in CutE : l \subseteq CutV /\ Cardinality(l) = 2
    /\ \A n \in CutV : CutReach({n}) = CutV

\* A simple chain: two nodes or more, one link less than nodes
CutIsChain ==
    /\ CutSimple
    /\ Cardinality(CutV) >= 2
    /\ Cardinality(CutE) = Cardinality(CutV) - 1
    /\ \A n \in CutV : CutDegree(n) <= 2

\* A simple ring: every node has two links
CutIsRing ==
    /\ CutSimple
    /\ Cardinality(CutV) >= 3
    /\ \A n \in CutV : CutDegree(n) = 2

\* The first neighbour of the k-th emitted node, in the order the edges were
\* inserted, that was not emitted among the first k; "" when there is none
FirstFresh(k) ==
    LET walk == log.cutFaceNodes
        neighbors == At(log.linkMap, walk[k], <<>>)
        fresh == {j \in DOMAIN neighbors :
                     neighbors[j] \notin {walk[i] : i \in 1..k}}
    IN IF fresh = {} THEN ""
       ELSE neighbors[CHOOSE j \in fresh : \A i \in fresh : j <= i]

\* C30: in the extraction from a referenced part that the snapshot has, the node
\* walk starts at the chosen start node, emits no node twice, and at each step
\* moves to the first not yet visited neighbour in edge-insertion order, ending
\* when there is none or it is no node of the part; on a simple chain it starts
\* at a node with one link and emits all nodes in path order; on a simple ring
\* it emits all nodes in cycle order and the ring flag is set.  When the
\* snapshot has no such part there is no walk.
C30_CutTemplateWalk ==
    gen.pc = "walked" =>
        LET walk == log.cutFaceNodes
        IN IF PartC \notin DOMAIN snapshot.parts THEN walk = <<>> /\ ~log.isRing
           ELSE
           /\ (walk = <<>>) <=> (CutV = {})
           /\ walk # <<>> => walk[1] = log.start
           /\ \A i, j \in DOMAIN walk : walk[i] = walk[j] => i = j
           /\ \A k \in DOMAIN walk :
                 IF k < Len(walk) THEN walk[k + 1] = FirstFresh(k)
                 ELSE FirstFresh(k) \notin CutV
           /\ CutIsChain =>
                 /\ CutDegree(walk[1]) = 1
                 /\ Range(walk) = CutV
                 /\ \A k \in 1..(Len(walk) - 1) : {walk[k], walk[k + 1]} \in CutE
                 /\ ~log.isRing
           /\ CutIsRing =>
                 /\ Range(walk) = CutV
                 /\ \A k \in 1..(Len(walk) - 1) : {walk[k], walk[k + 1]} \in CutE
                 /\ {walk[Len(walk)], walk[1]} \in CutE
                 /\ log.isRing

\* A chain of four nodes was walked from one end to the other
C30_Witness ==
    /\ gen.pc = "walked"
    /\ CutIsChain
    /\ Len(log.cutFaceNodes) = 4
    /\ CutDegree(log.cutFaceNodes[4]) = 1
    /\ log.cutFaceNodes[1] # CutNodeIds[1]

\* A ring of four nodes was walked once around
C30_WitnessRing ==
    /\ gen.pc = "walked"
    /\ CutIsRing
    /\ Len(log.cutFaceNodes) = 4
    /\ log.isRing

====
